---- MODULE Spec2Model ----
(***************************************************************************)
(* Corroboration & safe-mutation engine of claude-agents-skills.           *)
(*                                                                         *)
(* SpecFixer models CodeFixerV3 (code_fixer_v3.py): the loaded Fix list,   *)
(* the project files, the session backup directory and apply_all_fixes /   *)
(* apply_fix, one action per step of apply_fix.                            *)
(* SpecCoord models AgentCoordinatorV3.run_full_workflow                   *)
(* (agent_coordinator_v3.py) with ConsensusAnalyzer.find_consensus         *)
(* (consensus_analyzer.py) up to CodeFixerV3.load_json_reports.            *)
(*                                                                         *)
(* File contents are sequences of symbols.  One symbol stands for one      *)
(* character, except that the literals the code searches for are single    *)
(* symbols: "L" = console.log, "W" = console.warn, "R" = console.error,    *)
(* "I" = import, "F" = from; "e" is a code point of the emoji ranges,      *)
(* "\n" ends a line.                                                       *)
(***************************************************************************)
EXTENDS Integers, Sequences, FiniteSets, TLC

(***************************************************************************)
(* Text primitives: Python str / list / re as used by code_fixer_v3.py     *)
(***************************************************************************)

\* Characters matched by \s in the regular expressions of the fixer.
WhiteSpace == {" ", "\t", "\n"}

\* Code points of the character class of emoji_pattern.
EmojiChars == {"e"}

\* The three literals apply_console_log_removal looks for.
ConsoleLiterals == {"L", "W", "R"}

\* Every symbol a file may hold.
Alphabet == {"e", " ", "\t", "\n", "x", "L", "W", "R", "I", "F", "{", "}", ",", "A", "B", "m"}

\* One element of a regular expression: a character class and a quantifier.
One(S)  == [set |-> S, q |-> "one"]
Opt(S)  == [set |-> S, q |-> "opt"]
Star(S) == [set |-> S, q |-> "star"]

\* re: try to match pat[k..] at position i of s, greedy with backtracking.
\* The result is the position after the match, or 0 when there is none.
RECURSIVE MatchAt(_, _, _, _)
MatchAt(s, i, pat, k) ==
    IF k > Len(pat) THEN i
    ELSE LET el  == pat[k]
             hit == i <= Len(s) /\ s[i] \in el.set
         IN CASE el.q = "one"  -> IF hit THEN MatchAt(s, i + 1, pat, k + 1) ELSE 0
              [] el.q = "opt"  -> IF hit
                                  THEN LET r == MatchAt(s, i + 1, pat, k + 1)
                                       IN IF r # 0 THEN r ELSE MatchAt(s, i, pat, k + 1)
                                  ELSE MatchAt(s, i, pat, k + 1)
              [] el.q = "star" -> IF hit
                                  THEN LET r == MatchAt(s, i + 1, pat, k)
                                       IN IF r # 0 THEN r ELSE MatchAt(s, i, pat, k + 1)
                                  ELSE MatchAt(s, i, pat, k + 1)

\* re.sub(pat, repl, s) from position i on: leftmost non-overlapping matches.
RECURSIVE SubFrom(_, _, _, _)
SubFrom(s, i, pat, repl) ==
    IF i > Len(s) THEN <<>>
    ELSE LET e == MatchAt(s, i, pat, 1)
         IN IF e > i THEN repl \o SubFrom(s, e, pat, repl)
            ELSE <<s[i]>> \o SubFrom(s, i + 1, pat, repl)

ReSub(pat, repl, s) == SubFrom(s, 1, pat, repl)

\* re.search(pat, s) is not None
ReSearch(pat, s) == \E i \in 1..Len(s) : MatchAt(s, i, pat, 1) # 0

\* sub in s (Python substring test)
Contains(s, sub) ==
    \E i \in 0..(Len(s) - Len(sub)) : SubSeq(s, i + 1, i + Len(sub)) = sub

\* str.strip()
RECURSIVE LStrip(_)
LStrip(s) == IF s # <<>> /\ Head(s) \in WhiteSpace THEN LStrip(Tail(s)) ELSE s

RECURSIVE RStrip(_)
RStrip(s) ==
    IF s # <<>> /\ s[Len(s)] \in WhiteSpace THEN RStrip(SubSeq(s, 1, Len(s) - 1)) ELSE s

Strip(s) == RStrip(LStrip(s))

\* f.readlines(): the lines of a file, each keeping its line terminator.
RECURSIVE ReadLines(_)
ReadLines(content) ==
    IF content = <<>> THEN <<>>
    ELSE LET ends == {i \in 1..Len(content) : content[i] = "\n"}
             k    == IF ends = {} THEN Len(content)
                     ELSE CHOOSE i \in ends : \A j \in ends : i <= j
         IN <<SubSeq(content, 1, k)>> \o ReadLines(SubSeq(content, k + 1, Len(content)))

\* f.writelines(lines): the concatenation of the lines.
RECURSIVE WriteLines(_)
WriteLines(lines) ==
    IF lines = <<>> THEN <<>> ELSE Head(lines) \o WriteLines(Tail(lines))

\* Python list indexing lines[idx] with idx = line_number - 1: the 1-based
\* position it denotes, or 0 when Python raises IndexError.  A negative idx
\* counts from the end of the list.
PyIndex(lines, idx) ==
    IF idx >= 0
    THEN IF idx < Len(lines) THEN idx + 1 ELSE 0
    ELSE IF Len(lines) + idx >= 0 THEN Len(lines) + idx + 1 ELSE 0

\* del lines[p] for a valid 1-based position p
DelAt(lines, p) == SubSeq(lines, 1, p - 1) \o SubSeq(lines, p + 1, Len(lines))

\* lines[p] = v for a valid 1-based position p
SetAt(lines, p, v) == [lines EXCEPT ![p] = v]

(***************************************************************************)
(* Fix records and the three text transformations of CodeFixerV3           *)
(***************************************************************************)

\* A float built from an integer literal, and the arithmetic the analyzer
\* does on confidences; a value is kept as an exact fraction.
Float(n) == [num |-> n, den |-> 1]
FloatAdd(x, y) == [num |-> x.num * y.den + y.num * x.den, den |-> x.den * y.den]
FloatDiv(x, n) == [num |-> x.num, den |-> x.den * n]
AtLeast(x, n) == x.num >= n * x.den

\* Fix.error is a string; it is kept as the fixed text and the variable part.
NoError == [text |-> "", detail |-> ""]
Err(text) == [text |-> text, detail |-> ""]

\* The markers the fixer stores in old_code / new_code.
LineRemoved == <<"[ligne supprimee]">>
DryRunOld == <<"[DRY-RUN - non modifie]">>
DryRunNew == <<"[DRY-RUN - simulation]">>

\* re.search(r"Import\s+'([^']+)'\s+non utilisé", description): the captured
\* name, or the empty sequence when the description does not match.
ExtractImportName(description) ==
    CASE description = "Import 'A' non utilise" -> <<"A">>
      [] description = "Import 'B' non utilise" -> <<"B">>
      [] OTHER -> <<>>

\* What an apply_* method hands back: its return value, the content of the
\* file afterwards, whether it opened the file for writing, and the fields
\* of the Fix it assigned.
Outcome(ok, content, wrote, error, old_code, new_code) ==
    [ok |-> ok, content |-> content, wrote |-> wrote, error |-> error,
     old_code |-> old_code, new_code |-> new_code]

Failed(content, fix, error) ==
    Outcome(FALSE, content, FALSE, error, fix.old_code, fix.new_code)

emoji_pattern == <<One(EmojiChars), Star(EmojiChars)>>
multiple_spaces == <<One({" "}), One({" "}), Star({" "})>>

apply_emoji_removal(content, fix) ==
    LET lines == ReadLines(content)
        p     == PyIndex(lines, fix.line_number - 1)
    IN IF fix.line_number > Len(lines)
       THEN Failed(content, fix, Err("Ligne hors limites"))
       ELSE IF p = 0
       THEN Failed(content, fix, Err("list index out of range"))
       ELSE LET original_line == lines[p]
                new_line == ReSub(multiple_spaces, <<" ">>,
                                  ReSub(emoji_pattern, <<>>, original_line))
            IN IF original_line # new_line
               THEN Outcome(TRUE, WriteLines(SetAt(lines, p, new_line)), TRUE,
                            fix.error, Strip(original_line), Strip(new_line))
               ELSE Failed(content, fix, fix.error)

apply_console_log_removal(content, fix) ==
    LET lines == ReadLines(content)
        p     == PyIndex(lines, fix.line_number - 1)
    IN IF fix.line_number > Len(lines)
       THEN Failed(content, fix, Err("Ligne hors limites"))
       ELSE IF p = 0
       THEN Failed(content, fix, Err("list index out of range"))
       ELSE LET original_line == lines[p]
            IN IF \E i \in 1..Len(original_line) : original_line[i] \in ConsoleLiterals
               THEN Outcome(TRUE, WriteLines(DelAt(lines, p)), TRUE,
                            fix.error, Strip(original_line), LineRemoved)
               ELSE Failed(content, fix, fix.error)

\* r',?\s*' + re.escape(import_name) + r'\s*,?'
ImportNamePattern(import_name) ==
    <<Opt({","}), Star(WhiteSpace)>>
    \o [i \in 1..Len(import_name) |-> One({import_name[i]})]
    \o <<Star(WhiteSpace), Opt({","})>>

\* The four re.sub calls on a destructured import line.
RemoveFromBraces(import_name, original_line) ==
    LET s1 == ReSub(ImportNamePattern(import_name), <<>>, original_line)
        s2 == ReSub(<<One({"{"}), Star(WhiteSpace), One({","})>>, <<"{">>, s1)
        s3 == ReSub(<<One({","}), Star(WhiteSpace), One({"}"})>>, <<"}">>, s2)
    IN ReSub(<<One({"{"}), Star(WhiteSpace), One({"}"})>>, <<>>, s3)

\* r'import\s*\{\s*\}\s*from'
empty_import == <<One({"I"}), Star(WhiteSpace), One({"{"}), Star(WhiteSpace),
                  One({"}"}), Star(WhiteSpace), One({"F"})>>

apply_unused_import_removal(content, fix) ==
    LET lines == ReadLines(content)
        p     == PyIndex(lines, fix.line_number - 1)
        import_name == ExtractImportName(fix.description)
    IN IF fix.line_number > Len(lines)
       THEN Failed(content, fix, Err("Ligne hors limites"))
       ELSE IF p = 0
       THEN Failed(content, fix, Err("list index out of range"))
       ELSE IF import_name = <<>>
       THEN Failed(content, fix, Err("Impossible d'extraire le nom de l'import"))
       ELSE LET original_line == lines[p]
                braces == (\E i \in 1..Len(original_line) : original_line[i] = "{")
                          /\ (\E i \in 1..Len(original_line) : original_line[i] = "}")
                new_line == RemoveFromBraces(import_name, original_line)
            IN IF braces
               THEN IF ReSearch(empty_import, new_line)
                    THEN Outcome(TRUE, WriteLines(DelAt(lines, p)), TRUE,
                                 fix.error, Strip(original_line), LineRemoved)
                    ELSE Outcome(TRUE, WriteLines(SetAt(lines, p, new_line)), TRUE,
                                 fix.error, Strip(original_line), Strip(new_line))
               ELSE IF Contains(original_line, <<"I", " ">> \o import_name)
                       \/ Contains(original_line, <<"I", "\t">> \o import_name)
               THEN Outcome(TRUE, WriteLines(DelAt(lines, p)), TRUE,
                            fix.error, Strip(original_line), LineRemoved)
               ELSE Failed(content, fix, fix.error)


(***************************************************************************)
(* CodeFixerV3: state                                                      *)
(***************************************************************************)

VARIABLES
    project,        \* the project tree: path of each existing file -> content
    backup,         \* <session>/2-FIXES/backup: relative path -> content
    fixes,          \* self.fixes, the Fix objects in load order
    fixes_applied,  \* self.fixes_applied, as positions in fixes
    fixes_failed,   \* self.fixes_failed, as positions in fixes
    syntax_errors,  \* self.syntax_errors
    dry_run,        \* self.dry_run
    pc,             \* where the running operation stands
    cur,            \* position in fixes of the Fix inside apply_fix, 0 if none
    session_start,  \* history: the project tree when the session began
    obs             \* history: per Fix, what apply_fix did with it

fixerVars == <<project, backup, fixes, fixes_applied, fixes_failed,
               syntax_errors, dry_run, pc, cur, session_start, obs>>

\* ConsensusAnalyzer and the call find_consensus(all_issues, min_agents).
VARIABLES
    all_issues,        \* the pooled Issue list; a position in it is an object id
    line_tolerance,    \* self.line_tolerance
    min_agents,        \* the min_agents argument
    consensus_issues,  \* self.consensus_issues
    rejected_issues    \* self.rejected_issues, as positions in all_issues

analyzerVars == <<all_issues, line_tolerance, min_agents, consensus_issues, rejected_issues>>

\* AgentCoordinatorV3 and the session directory it shares with the fixer.
VARIABLES
    auto_mode,      \* self.auto_mode
    agent_results,  \* per launched agent, its AgentResult ("running" until it returns)
    analysis_dir,   \* the *.json files of <session>/1-ANALYSIS
    summary         \* the counters and flags of self.session_summary

coordVars == <<auto_mode, agent_results, analysis_dir, summary>>

\* ValidationConsensus (validation_consensus.py); the validator reports it
\* compares are files of analysis_dir.
VARIABLES
    consensus_validations,  \* self.consensus_validations
    approved_corrections,   \* self.approved_corrections
    rejected_corrections,   \* self.rejected_corrections
    tally                   \* both_approved, both_rejected, disagreement of compare_validations

validationVars ==
    <<consensus_validations, approved_corrections, rejected_corrections, tally>>

\* ConsensusAnalyzerV2.result; the FixSession of CodeFixer (code_fixer_v2.py)
\* and what rollback_session prints.
VARIABLES
    result,    \* self.result of ConsensusAnalyzerV2
    session,   \* self.session: backup_dir (the copies it holds) and files_modified
    printed    \* the number of files rollback_session says it has restored

extVars == <<validationVars, result, session, printed>>

\* ValidationConsensus.__init__, and the state of the file-level analyzer and
\* of the V2 fixer while neither runs.
ExtIdle ==
    /\ consensus_validations = <<>>
    /\ approved_corrections = <<>>
    /\ rejected_corrections = <<>>
    /\ tally = [both_approved |-> 0, both_rejected |-> 0, disagreement |-> 0]
    /\ result = <<>>
    /\ session = [backup_dir |-> [q \in {} |-> <<>>], files_modified |-> <<>>]
    /\ printed = 0

\* The fixer's state while no fixer runs.
FixerIdle ==
    /\ project = [q \in {} |-> <<>>]
    /\ session_start = project
    /\ backup = [q \in {} |-> <<>>]
    /\ fixes = <<>>
    /\ fixes_applied = <<>>
    /\ fixes_failed = <<>>
    /\ syntax_errors = <<>>
    /\ dry_run = FALSE
    /\ cur = 0
    /\ obs = <<>>

\* The analyzer's state before find_consensus has been called.
AnalyzerIdle ==
    /\ all_issues = <<>>
    /\ line_tolerance = 2
    /\ min_agents = 2
    /\ consensus_issues = <<>>
    /\ rejected_issues = <<>>

\* The coordinator's state while no coordinator runs.
CoordIdle ==
    /\ auto_mode = FALSE
    /\ agent_results = <<>>
    /\ analysis_dir = [q \in {} |-> <<>>]
    /\ summary = [q \in {} |-> 0]

\* Bounds of the fixer model.
MaxFixes == 2
MaxLine == 2

AppTsx == "src/App.tsx"
DebugJs == "src/utils/debug.js"
ReadmeMd == "README.md"
GoneTsx == "src/Gone.tsx"

\* file_path.suffix
Suffix(path) ==
    CASE path = AppTsx -> ".tsx"
      [] path = DebugJs -> ".js"
      [] path = ReadmeMd -> ".md"
      [] path = GoneTsx -> ".tsx"

\* The lines the initial project files are made of.
EmojiLine == <<"x", " ", "e", " ", "x", "\n">>
IndentedLine == <<" ", " ", "x", "\n">>
ConsoleLogLine == <<"L", "\n">>
ConsoleWarnLine == <<" ", "W", "\n">>
ImportABLine == <<"I", " ", "{", " ", "A", ",", " ", "B", " ", "}", " ", "F", " ", "m", "\n">>
ImportDefaultLine == <<"I", " ", "A", " ", "F", " ", "m", "\n">>

\* Contents src/App.tsx may have when the session begins.
AppContents ==
    { EmojiLine \o IndentedLine,
      ConsoleLogLine \o ConsoleWarnLine,
      ImportABLine \o ImportDefaultLine }

\* Project trees at the start of a session; src/Gone.tsx does not exist.
InitialProjects ==
    { [f \in {AppTsx, DebugJs, ReadmeMd} |->
          CASE f = AppTsx -> c
            [] f = DebugJs -> ConsoleLogLine
            [] f = ReadmeMd -> EmojiLine] : c \in AppContents }

\* Fix(...) as load_json_reports builds it; "solution" is never read by the
\* fixer's logic and is left out.
NewFix(agent, file, line, type, description, confidence) ==
    [agent |-> agent, file_path |-> file, line_number |-> line, fix_type |-> type,
     description |-> description, old_code |-> <<>>, new_code |-> <<>>,
     confidence |-> confidence, applied |-> FALSE, success |-> FALSE,
     error |-> NoError]

\* The fixes a session may have loaded.
FixPool ==
    { NewFix("dead-code-cleaner", AppTsx, l, t, "Import 'A' non utilise", Float(95)) :
          l \in 1..MaxLine, t \in {"emoji_detected", "console_log", "unused_import"} }
    \cup { NewFix("props-form-validator", AppTsx, 0, "emoji_detected", "Emoji", Float(98)),
           NewFix("dead-code-cleaner", AppTsx, 1, "unused_import", "Import inutile", Float(95)),
           NewFix("dead-code-cleaner", AppTsx, 1, "commented_code", "Code commente", Float(95)),
           NewFix("dead-code-cleaner", DebugJs, 1, "console_log", "Console.log oublie", Float(100)),
           NewFix("dead-code-cleaner", DebugJs, 0, "console_log", "Console.log oublie", Float(100)),
           NewFix("dead-code-cleaner", DebugJs, 2, "console_log", "Console.log oublie", Float(100)),
           NewFix("props-form-validator", ReadmeMd, 1, "emoji_detected", "Emoji", Float(98)),
           NewFix("props-form-validator", GoneTsx, 1, "emoji_detected", "Emoji", Float(98)) }

\* Per-Fix history record, filled in by the steps of apply_fix.
\* verified: an external checker (node or tsc) actually ran on the file.
NoObs == [before |-> <<>>, transformed |-> "none", wrote |-> FALSE,
          verdict |-> "none", message |-> "None", restored |-> FALSE,
          verified |-> FALSE]

(***************************************************************************)
(* CodeFixerV3: operations                                                 *)
(***************************************************************************)

\* apply_all_fixes groups the fixes by file_path in a dict (insertion order)
\* and walks the groups: position i comes before j when its file was first
\* seen earlier, or they share the file and i was loaded earlier.
FirstSeen(fs, i) == CHOOSE j \in 1..Len(fs) :
    /\ fs[j].file_path = fs[i].file_path
    /\ \A k \in 1..Len(fs) : fs[k].file_path = fs[i].file_path => j <= k

Before(fs, i, j) ==
    \/ FirstSeen(fs, i) < FirstSeen(fs, j)
    \/ FirstSeen(fs, i) = FirstSeen(fs, j) /\ i < j

ProcessingOrder(fs) ==
    [k \in 1..Len(fs) |->
        CHOOSE i \in 1..Len(fs) : Cardinality({j \in 1..Len(fs) : Before(fs, j, i)}) = k - 1]

Processed == Len(fixes_applied) + Len(fixes_failed)

\* file_path.exists()
Exists(path) == path \in DOMAIN project

\* Mutant of backup_file: the copy is left out.
backup_file_NoCopy(bk, proj, path) == bk

\* backup_file: shutil.copy2(file_path, backup_path)
backup_file(bk, proj, path) ==
    IF path \notin DOMAIN proj THEN bk
    ELSE [q \in DOMAIN bk \cup {path} |-> IF q = path THEN proj[path] ELSE bk[q]]

\* Mutant of rollback_file: it reports success without copying the backup back.
rollback_file_NoRestore(bk, proj, path) == [project |-> proj, ok |-> TRUE]

\* rollback_file: the project tree afterwards, and its return value
rollback_file(bk, proj, path) ==
    IF path \notin DOMAIN bk THEN [project |-> proj, ok |-> FALSE]
    ELSE [project |-> [proj EXCEPT ![path] = bk[path]], ok |-> TRUE]

\* Answers of the external tools to subprocess.run.
NodeAnswers == {"ok", "fail", "notfound", "timeout"}
TscAnswers == {"ok", "fail", "allowjs", "notfound", "timeout", "oserror"}

\* verify_syntax: (success, error_message); "None" stands for None
verify_syntax(path, node, tsc) ==
    IF Suffix(path) \notin {".ts", ".tsx", ".js", ".jsx"}
    THEN [ok |-> TRUE, message |-> "None"]
    ELSE IF Suffix(path) \in {".js", ".jsx"} /\ node # "notfound"
    THEN CASE node = "ok" -> [ok |-> TRUE, message |-> "None"]
           [] node = "fail" -> [ok |-> FALSE, message |-> "node stderr"]
           [] node = "timeout" -> [ok |-> FALSE, message |-> "Timeout lors de la verification"]
    ELSE CASE tsc = "ok" -> [ok |-> TRUE, message |-> "None"]
           [] tsc = "allowjs" -> [ok |-> TRUE, message |-> "None"]
           [] tsc = "fail" -> [ok |-> FALSE, message |-> "tsc errors"]
           [] tsc = "notfound" -> [ok |-> TRUE, message |-> "None"]
           [] tsc = "timeout" -> [ok |-> FALSE, message |-> "Timeout lors de la verification"]
           [] tsc = "oserror" -> [ok |-> FALSE, message |-> "Erreur verification"]

\* The fix types apply_fix dispatches on.
SupportedTypes == {"emoji_detected", "console_log", "unused_import"}

\* The apply_* method apply_fix calls for a supported fix type.
Transform(content, fix) ==
    CASE fix.fix_type = "emoji_detected" -> apply_emoji_removal(content, fix)
      [] fix.fix_type = "console_log" -> apply_console_log_removal(content, fix)
      [] fix.fix_type = "unused_import" -> apply_unused_import_removal(content, fix)

\* Mutant of RecordFailure: the else branch sets success like the if branch.
RecordFailure_Success(fs, i) == [fs EXCEPT ![i].applied = TRUE, ![i].success = TRUE]

\* The bookkeeping of apply_all_fixes once apply_fix has returned.
RecordSuccess(fs, i) == [fs EXCEPT ![i].applied = TRUE, ![i].success = TRUE]
RecordFailure(fs, i) == [fs EXCEPT ![i].applied = TRUE, ![i].success = FALSE]


\* The state when apply_all_fixes is entered: run() has loaded the fixes.
InitFixer ==
    /\ project \in InitialProjects
    /\ session_start = project
    /\ backup = [q \in {} |-> <<>>]
    /\ \E n \in 1..MaxFixes : fixes \in [1..n -> FixPool]
    /\ fixes_applied = <<>>
    /\ fixes_failed = <<>>
    /\ syntax_errors = <<>>
    /\ dry_run \in BOOLEAN
    /\ pc = "loop"
    /\ cur = 0
    /\ obs = [i \in 1..Len(fixes) |-> NoObs]
    /\ AnalyzerIdle
    /\ CoordIdle
    /\ ExtIdle

\* apply_all_fixes takes the next Fix and apply_fix does not find its file:
\* fix.error is set, apply_fix returns False, the Fix goes to fixes_failed.
FileMissing ==
    /\ pc = "loop" /\ Processed < Len(fixes)
    /\ LET i == ProcessingOrder(fixes)[Processed + 1]
       IN /\ ~Exists(fixes[i].file_path)
          /\ fixes' = RecordFailure([fixes EXCEPT ![i].error = Err("Fichier introuvable")], i)
          /\ fixes_failed' = Append(fixes_failed, i)
    /\ UNCHANGED <<project, backup, fixes_applied, syntax_errors, dry_run, pc, cur,
                   session_start, obs>>
    /\ UNCHANGED <<analyzerVars, coordVars, extVars>>

\* Mutant of DryRunFix: backup_file is called before the dry-run test.
DryRunFix_Backup ==
    /\ pc = "loop" /\ Processed < Len(fixes)
    /\ LET i == ProcessingOrder(fixes)[Processed + 1]
       IN /\ Exists(fixes[i].file_path)
          /\ dry_run
          /\ backup' = backup_file(backup, project, fixes[i].file_path)
          /\ fixes' = RecordSuccess([fixes EXCEPT ![i].old_code = DryRunOld,
                                                  ![i].new_code = DryRunNew], i)
          /\ fixes_applied' = Append(fixes_applied, i)
    /\ UNCHANGED <<project, fixes_failed, syntax_errors, dry_run, pc, cur,
                   session_start, obs>>
    /\ UNCHANGED <<analyzerVars, coordVars, extVars>>

\* apply_fix in dry-run mode: nothing is touched and it returns True.
DryRunFix ==
    /\ pc = "loop" /\ Processed < Len(fixes)
    /\ LET i == ProcessingOrder(fixes)[Processed + 1]
       IN /\ Exists(fixes[i].file_path)
          /\ dry_run
          /\ fixes' = RecordSuccess([fixes EXCEPT ![i].old_code = DryRunOld,
                                                  ![i].new_code = DryRunNew], i)
          /\ fixes_applied' = Append(fixes_applied, i)
    /\ UNCHANGED <<project, backup, fixes_failed, syntax_errors, dry_run, pc, cur,
                   session_start, obs>>
    /\ UNCHANGED <<analyzerVars, coordVars, extVars>>

\* apply_fix found the file and is about to call backup_file.
Located ==
    /\ pc = "loop" /\ Processed < Len(fixes)
    /\ LET i == ProcessingOrder(fixes)[Processed + 1]
       IN /\ Exists(fixes[i].file_path)
          /\ ~dry_run
          /\ cur' = i
          /\ obs' = [obs EXCEPT ![i].before = project[fixes[i].file_path]]
    /\ pc' = "backup"
    /\ UNCHANGED <<project, backup, fixes, fixes_applied, fixes_failed, syntax_errors,
                   dry_run, session_start>>
    /\ UNCHANGED <<analyzerVars, coordVars, extVars>>

\* backup_file copies the file into the session backup directory.
BackupFile ==
    /\ pc = "backup"
    /\ backup' = backup_file(backup, project, fixes[cur].file_path)
    /\ pc' = "transform"
    /\ UNCHANGED <<project, fixes, fixes_applied, fixes_failed, syntax_errors, dry_run,
                   cur, session_start, obs>>
    /\ UNCHANGED <<analyzerVars, coordVars, extVars>>

\* shutil.copy2 or mkdir inside backup_file raises (backup directory not
\* writable, disk full): nothing catches it in apply_fix, apply_all_fixes,
\* run or main, so the process ends with the traceback.
BackupRaises ==
    /\ pc = "backup"
    /\ pc' = "crashed"
    /\ UNCHANGED <<project, backup, fixes, fixes_applied, fixes_failed, syntax_errors,
                   dry_run, cur, session_start, obs>>
    /\ UNCHANGED <<analyzerVars, coordVars, extVars>>

\* apply_fix meets a fix type it has no method for.
UnsupportedType ==
    /\ pc = "transform"
    /\ fixes[cur].fix_type \notin SupportedTypes
    /\ fixes' = RecordFailure(
           [fixes EXCEPT ![cur].error = Err("Type de correction non supporte")], cur)
    /\ fixes_failed' = Append(fixes_failed, cur)
    /\ obs' = [obs EXCEPT ![cur].transformed = "unsupported"]
    /\ pc' = "loop"
    /\ cur' = 0
    /\ UNCHANGED <<project, backup, fixes_applied, syntax_errors, dry_run, session_start>>
    /\ UNCHANGED <<analyzerVars, coordVars, extVars>>

\* Whether the line the Fix names (1-based) holds the pattern of its type.
PatternPresent(content, fix) ==
    LET lines == ReadLines(content)
        n     == fix.line_number
        name  == ExtractImportName(fix.description)
    IN /\ n \in 1..Len(lines)
       /\ CASE fix.fix_type = "emoji_detected" ->
                 \E k \in 1..Len(lines[n]) : lines[n][k] \in EmojiChars
            [] fix.fix_type = "console_log" ->
                 \E k \in 1..Len(lines[n]) : lines[n][k] \in ConsoleLiterals
            [] fix.fix_type = "unused_import" ->
                 name # <<>> /\ Contains(lines[n], name)
            [] OTHER -> FALSE

\* The apply_* method of the fix type runs and returns False: apply_fix
\* returns False and the Fix goes to fixes_failed.
TransformFails ==
    /\ pc = "transform"
    /\ fixes[cur].fix_type \in SupportedTypes
    /\ LET f == fixes[cur].file_path
           r == Transform(project[f], fixes[cur])
       IN /\ ~r.ok
          /\ project' = [project EXCEPT ![f] = r.content]
          /\ fixes' = RecordFailure([fixes EXCEPT ![cur].error = r.error,
                                                  ![cur].old_code = r.old_code,
                                                  ![cur].new_code = r.new_code], cur)
          /\ obs' = [obs EXCEPT ![cur].transformed = "failed",
                                ![cur].wrote = r.wrote]
    /\ fixes_failed' = Append(fixes_failed, cur)
    /\ pc' = "loop"
    /\ cur' = 0
    /\ UNCHANGED <<backup, fixes_applied, syntax_errors, dry_run, session_start>>
    /\ UNCHANGED <<analyzerVars, coordVars, extVars>>

\* The apply_* method rewrites the file and returns True.
TransformWrites ==
    /\ pc = "transform"
    /\ fixes[cur].fix_type \in SupportedTypes
    /\ LET f == fixes[cur].file_path
           r == Transform(project[f], fixes[cur])
       IN /\ r.ok
          /\ project' = [project EXCEPT ![f] = r.content]
          /\ fixes' = [fixes EXCEPT ![cur].error = r.error,
                                    ![cur].old_code = r.old_code,
                                    ![cur].new_code = r.new_code]
          /\ obs' = [obs EXCEPT ![cur].transformed = "ok",
                                ![cur].wrote = r.wrote]
    /\ pc' = "verify"
    /\ UNCHANGED <<backup, fixes_applied, fixes_failed, syntax_errors, dry_run, cur,
                   session_start>>
    /\ UNCHANGED <<analyzerVars, coordVars, extVars>>

\* verify_syntax accepts the file: apply_fix returns True.
VerifyPasses ==
    /\ pc = "verify"
    /\ \E node \in NodeAnswers, tsc \in TscAnswers :
          LET f == fixes[cur].file_path
              v == verify_syntax(f, node, tsc)
              node_ran == Suffix(f) \in {".js", ".jsx"} /\ node # "notfound"
              tsc_ran == Suffix(f) \in {".ts", ".tsx", ".js", ".jsx"} /\ tsc # "notfound"
          IN /\ v.ok
             /\ obs' = [obs EXCEPT ![cur].verdict = "passed", ![cur].message = v.message,
                                   ![cur].verified = node_ran \/ tsc_ran]
    /\ fixes' = RecordSuccess(fixes, cur)
    /\ fixes_applied' = Append(fixes_applied, cur)
    /\ pc' = "loop"
    /\ cur' = 0
    /\ UNCHANGED <<project, backup, fixes_failed, syntax_errors, dry_run, session_start>>
    /\ UNCHANGED <<analyzerVars, coordVars, extVars>>

\* verify_syntax rejects the file or times out: rollback_file, fix.error,
\* syntax_errors, apply_fix returns False.
VerifyFails ==
    /\ pc = "verify"
    /\ \E node \in NodeAnswers, tsc \in TscAnswers :
          LET f  == fixes[cur].file_path
              v  == verify_syntax(f, node, tsc)
              rb == rollback_file(backup, project, f)
          IN /\ ~v.ok
             /\ project' = rb.project
             /\ fixes' = RecordFailure(
                    [fixes EXCEPT ![cur].error =
                        [text |-> IF rb.ok
                                  THEN "Erreur de syntaxe apres modification (ROLLBACK ok)"
                                  ELSE "Erreur de syntaxe apres modification (ROLLBACK echec)",
                         detail |-> v.message]], cur)
             /\ syntax_errors' = Append(syntax_errors,
                    [file |-> f, line |-> fixes[cur].line_number,
                     fix_type |-> fixes[cur].fix_type, error |-> v.message,
                     rollback_success |-> rb.ok])
             /\ obs' = [obs EXCEPT ![cur].verdict = "failed", ![cur].message = v.message,
                                   ![cur].restored = rb.ok]
    /\ fixes_failed' = Append(fixes_failed, cur)
    /\ pc' = "loop"
    /\ cur' = 0
    /\ UNCHANGED <<backup, fixes_applied, dry_run, session_start>>
    /\ UNCHANGED <<analyzerVars, coordVars, extVars>>

\* The loop of apply_all_fixes is over.
AllFixesDone ==
    /\ pc = "loop" /\ Processed = Len(fixes)
    /\ pc' = "done"
    /\ UNCHANGED <<project, backup, fixes, fixes_applied, fixes_failed, syntax_errors,
                   dry_run, cur, session_start, obs>>
    /\ UNCHANGED <<analyzerVars, coordVars, extVars>>

NextFixer ==
    \/ FileMissing
    \/ DryRunFix
    \/ Located
    \/ BackupFile
    \/ BackupRaises
    \/ UnsupportedType
    \/ TransformFails
    \/ TransformWrites
    \/ VerifyPasses
    \/ VerifyFails
    \/ AllFixesDone

vars == <<fixerVars, analyzerVars, coordVars, extVars>>

SpecFixer == InitFixer /\ [][NextFixer]_vars


(***************************************************************************)
(* ConsensusAnalyzer (consensus_analyzer.py)                               *)
(***************************************************************************)

\* The characters of the strings of the model that the code searches: the
\* issue types, and the file paths and descriptions the validator looks into.
Spelling(t) ==
    CASE t = "src/App.tsx" ->
             <<"s", "r", "c", "/", "A", "p", "p", ".", "t", "s", "x">>
      [] t = "src/utils/debug.js" ->
             <<"s", "r", "c", "/", "u", "t", "i", "l", "s", "/", "d", "e", "b", "u", "g",
               ".", "j", "s">>
      [] t = "src/App.test.tsx" ->
             <<"s", "r", "c", "/", "A", "p", "p", ".", "t", "e", "s", "t", ".", "t", "s", "x">>
      [] t = "Debug console left" ->
             <<"D", "e", "b", "u", "g", " ", "c", "o", "n", "s", "o", "l", "e", " ",
               "l", "e", "f", "t">>
      [] t = "Console.log oublie" ->
             <<"C", "o", "n", "s", "o", "l", "e", ".", "l", "o", "g", " ",
               "o", "u", "b", "l", "i", "e">>
      [] t = "emoji_detected" ->
             <<"e", "m", "o", "j", "i", "_", "d", "e", "t", "e", "c", "t", "e", "d">>
      [] t = "emoji_in_code" ->
             <<"e", "m", "o", "j", "i", "_", "i", "n", "_", "c", "o", "d", "e">>
      [] t = "Emoji Button" ->
             <<"E", "m", "o", "j", "i", " ", "B", "u", "t", "t", "o", "n">>
      [] t = "console_log" ->
             <<"c", "o", "n", "s", "o", "l", "e", "_", "l", "o", "g">>
      [] t = "debug_console" ->
             <<"d", "e", "b", "u", "g", "_", "c", "o", "n", "s", "o", "l", "e">>
      [] t = "unused_import" ->
             <<"u", "n", "u", "s", "e", "d", "_", "i", "m", "p", "o", "r", "t">>
      [] t = "commented_code" ->
             <<"c", "o", "m", "m", "e", "n", "t", "e", "d", "_", "c", "o", "d", "e">>
      [] t = "Missing onClick" ->
             <<"M", "i", "s", "s", "i", "n", "g", " ", "o", "n", "C", "l", "i", "c", "k">>
      [] t = "important_props" ->
             <<"i", "m", "p", "o", "r", "t", "a", "n", "t", "_", "p", "r", "o", "p", "s">>
      [] t = "consistency_issue" ->
             <<"c", "o", "n", "s", "i", "s", "t", "e", "n", "c", "y", "_", "i", "s", "s", "u", "e">>
      [] t = "emoji button" ->
             <<"e", "m", "o", "j", "i", " ", "b", "u", "t", "t", "o", "n">>
      [] t = "missing onclick" ->
             <<"m", "i", "s", "s", "i", "n", "g", " ", "o", "n", "c", "l", "i", "c", "k">>

\* The issue-type strings that have a spelling.
TypeStrings ==
    {"emoji_detected", "emoji_in_code", "Emoji Button", "console_log", "debug_console",
     "unused_import", "commented_code", "Missing onClick", "important_props",
     "consistency_issue", "emoji button", "missing onclick"}

\* The string with the given characters.
StringOf(chars) == CHOOSE t \in TypeStrings : Spelling(t) = chars

\* str.lower()
LowerChar(c) ==
    CASE c = "E" -> "e"
      [] c = "B" -> "b"
      [] c = "M" -> "m"
      [] c = "C" -> "c"
      [] c = "A" -> "a"
      [] c = "D" -> "d"
      [] OTHER -> c

Lower(chars) == [k \in 1..Len(chars) |-> LowerChar(chars[k])]

\* len(str) of the descriptions of the model.
StrLen(s) ==
    CASE s = "Emoji" -> 5
      [] s = "Emoji found" -> 11
      [] s = "Emoji in code" -> 13
      [] s = "Emoji in button text" -> 20
      [] s = "Console.log oublie" -> 18
      [] s = "Debug console left" -> 18
      [] s = "Handler manquant" -> 16
      [] s = "Import 'A' non utilise" -> 22
      [] s = "Import 'B' non utilise" -> 22
      [] s = "Import inutile" -> 14
      [] s = "Code commente" -> 13

\* Issue(...), as parse_agent_report and the callers of find_consensus build
\* it; "solution" follows the same rule as "description" in
\* create_consensus_issue and is left out.
Issue(agent, file, line, severity, type, description, confidence, auto_fixable) ==
    [agent |-> agent, file_path |-> file, line_number |-> line, severity |-> severity,
     issue_type |-> type, description |-> description, old_code |-> <<>>,
     new_code |-> <<>>, confidence |-> confidence, auto_fixable |-> auto_fixable]

\* normalize_issue_type: the first keyword the lowercased type contains.
normalize_issue_type(issue_type) ==
    LET issue_type_lower == Lower(Spelling(issue_type))
    IN IF Contains(issue_type_lower, <<"e", "m", "o", "j", "i">>) THEN "emoji"
       ELSE IF Contains(issue_type_lower, <<"c", "o", "n", "s", "o", "l", "e">>)
       THEN "console_log"
       ELSE IF Contains(issue_type_lower, <<"i", "m", "p", "o", "r", "t">>)
       THEN "unused_import"
       ELSE IF Contains(issue_type_lower, <<"c", "o", "m", "m", "e", "n", "t">>)
       THEN "commented_code"
       ELSE IF Contains(issue_type_lower, <<"b", "u", "t", "t", "o", "n">>)
       THEN "button_issue"
       ELSE IF Contains(issue_type_lower, <<"p", "r", "o", "p">>)
       THEN "props_issue"
       ELSE IF \/ Contains(issue_type_lower,
                           <<"c", "o", "n", "s", "i", "s", "t", "e", "n", "c", "y">>)
               \/ Contains(issue_type_lower,
                           <<"c", "o", "h", "e'", "r", "e", "n", "c", "e">>)
       THEN "consistency"
       ELSE StringOf(issue_type_lower)

\* normalize_issue_type tabulated over the type strings of the model.
NormalizedType == [t \in TypeStrings |-> normalize_issue_type(t)]

\* abs()
Abs(n) == IF n < 0 THEN -n ELSE n

\* Mutant of issues_match: the line distance is taken without abs().
issues_match_OneSided(issue1, issue2, tol) ==
    IF issue1.file_path # issue2.file_path THEN FALSE
    ELSE IF issue1.line_number - issue2.line_number > tol THEN FALSE
    ELSE NormalizedType[issue1.issue_type] = NormalizedType[issue2.issue_type]

\* Mutant of issues_match: the types are compared as spelled.
issues_match_RawType(issue1, issue2, tol) ==
    IF issue1.file_path # issue2.file_path THEN FALSE
    ELSE IF Abs(issue1.line_number - issue2.line_number) > tol THEN FALSE
    ELSE issue1.issue_type = issue2.issue_type

\* issues_match(issue1, issue2) of an analyzer whose line_tolerance is tol
issues_match(issue1, issue2, tol) ==
    IF issue1.file_path # issue2.file_path THEN FALSE
    ELSE IF Abs(issue1.line_number - issue2.line_number) > tol THEN FALSE
    ELSE NormalizedType[issue1.issue_type] = NormalizedType[issue2.issue_type]

\* Mutant of PyMax: the first element is taken, whatever the keys are.
PyMax_First(list, keys) == list[1]

\* max(list, key=...): the first element whose key is the largest; keys[i]
\* is the key of list[i].
PyMax(list, keys) ==
    list[CHOOSE i \in 1..Len(list) :
            /\ \A j \in 1..Len(list) : keys[j] <= keys[i]
            /\ \A j \in 1..(i - 1) : keys[j] < keys[i]]

\* severity_order.get(s, 0)
SeverityOrder(s) ==
    CASE s = "critical" -> 3
      [] s = "important" -> 2
      [] s = "minor" -> 1
      [] OTHER -> 0

\* sum(i.confidence for i in matching_issues)
RECURSIVE SumConfidence(_)
SumConfidence(list) ==
    IF list = <<>> THEN Float(0)
    ELSE FloatAdd(SumConfidence(SubSeq(list, 1, Len(list) - 1)), list[Len(list)].confidence)

\* next((x for x in list if x), ""): the first non-empty entry
RECURSIVE FirstNonEmpty(_)
FirstNonEmpty(list) ==
    IF list = <<>> THEN <<>>
    ELSE IF Head(list) # <<>> THEN Head(list) ELSE FirstNonEmpty(Tail(list))

\* create_consensus_issue(matching_issues); ids are the objects' positions
\* in the pooled list, kept as source_issues.
create_consensus_issue(matching_issues, ids) ==
    LET primary == matching_issues[1]
        descriptions == [k \in 1..Len(matching_issues) |-> matching_issues[k].description]
        severities == [k \in 1..Len(matching_issues) |-> matching_issues[k].severity]
    IN [file_path |-> primary.file_path,
        line_number |-> primary.line_number,
        issue_type |-> normalize_issue_type(primary.issue_type),
        description |-> PyMax(descriptions,
                               [i \in 1..Len(descriptions) |-> StrLen(descriptions[i])]),
        severity |-> PyMax(severities,
                            [i \in 1..Len(severities) |-> SeverityOrder(severities[i])]),
        old_code |-> FirstNonEmpty([k \in 1..Len(matching_issues) |->
                                       matching_issues[k].old_code]),
        new_code |-> FirstNonEmpty([k \in 1..Len(matching_issues) |->
                                       matching_issues[k].new_code]),
        confidence |-> FloatDiv(SumConfidence(matching_issues), Len(matching_issues)),
        auto_fixable |-> \E k \in 1..Len(matching_issues) : matching_issues[k].auto_fixable,
        agreed_by |-> [k \in 1..Len(matching_issues) |-> matching_issues[k].agent],
        consensus_level |-> Len(matching_issues),
        source_issues |-> ids]

\* {issue.agent for issue in matching_issues}
AgentsOf(issues, ids) == {issues[ids[k]].agent : k \in 1..Len(ids)}

\* Mutant of CollectMatching: an issue of an agent already in matching_agents
\* is appended all the same.
RECURSIVE CollectMatching_NoDedupe(_, _, _, _, _, _)
CollectMatching_NoDedupe(issues, tol, i, j, processed, matching) ==
    IF j > Len(issues) THEN matching
    ELSE IF /\ j # i
            /\ issues[j].file_path = issues[i].file_path
            /\ j \notin processed
            /\ issues_match(issues[i], issues[j], tol)
    THEN CollectMatching_NoDedupe(issues, tol, i, j + 1, processed, Append(matching, j))
    ELSE CollectMatching_NoDedupe(issues, tol, i, j + 1, processed, matching)

\* Mutant of CollectMatching: an issue joins when it matches any issue
\* already in matching_issues, not only the seed.
RECURSIVE CollectMatching_Chained(_, _, _, _, _, _)
CollectMatching_Chained(issues, tol, i, j, processed, matching) ==
    IF j > Len(issues) THEN matching
    ELSE IF /\ j # i
            /\ issues[j].file_path = issues[i].file_path
            /\ j \notin processed
            /\ \E m \in 1..Len(matching) : issues_match(issues[matching[m]], issues[j], tol)
            /\ issues[j].agent \notin AgentsOf(issues, matching)
    THEN CollectMatching_Chained(issues, tol, i, j + 1, processed, Append(matching, j))
    ELSE CollectMatching_Chained(issues, tol, i, j + 1, processed, matching)

\* The inner loop of find_consensus for the seed at position i: the positions
\* of matching_issues once the issues of the seed's file from position j on
\* have been looked at.
RECURSIVE CollectMatching(_, _, _, _, _, _)
CollectMatching(issues, tol, i, j, processed, matching) ==
    IF j > Len(issues) THEN matching
    ELSE IF /\ j # i
            /\ issues[j].file_path = issues[i].file_path
            /\ j \notin processed
            /\ issues_match(issues[i], issues[j], tol)
            /\ issues[j].agent \notin AgentsOf(issues, matching)
    THEN CollectMatching(issues, tol, i, j + 1, processed, Append(matching, j))
    ELSE CollectMatching(issues, tol, i, j + 1, processed, matching)

\* issues_by_file: the positions of the pooled list, file by file in the
\* order the files were first seen (the dict grouping apply_all_fixes uses).
IssuesByFile(issues) == ProcessingOrder(issues)

\* Mutant of ConsensusLoop: the issues of a validated group are not added
\* to processed.
RECURSIVE ConsensusLoop_NoMark(_, _, _, _, _, _, _)
ConsensusLoop_NoMark(issues, tol, min, order, k, processed, consensus_list) ==
    IF k > Len(order) THEN [consensus_list |-> consensus_list, processed |-> processed]
    ELSE LET i == order[k]
             matching == CollectMatching(issues, tol, i, 1, processed, <<i>>)
         IN IF Cardinality(AgentsOf(issues, matching)) >= min
            THEN ConsensusLoop_NoMark(issues, tol, min, order, k + 1,
                     processed \cup {i},
                     Append(consensus_list,
                            create_consensus_issue(
                                [m \in 1..Len(matching) |-> issues[matching[m]]], matching)))
            ELSE ConsensusLoop_NoMark(issues, tol, min, order, k + 1, processed,
                                      consensus_list)

\* The outer loops of find_consensus from the k-th seed on.
RECURSIVE ConsensusLoop(_, _, _, _, _, _, _)
ConsensusLoop(issues, tol, min, order, k, processed, consensus_list) ==
    IF k > Len(order) THEN [consensus_list |-> consensus_list, processed |-> processed]
    ELSE LET i == order[k]
             matching == CollectMatching(issues, tol, i, 1, processed, <<i>>)
         IN IF i \in processed
            THEN ConsensusLoop(issues, tol, min, order, k + 1, processed, consensus_list)
            ELSE IF Cardinality(AgentsOf(issues, matching)) >= min
            THEN ConsensusLoop(issues, tol, min, order, k + 1,
                     processed \cup {matching[m] : m \in 1..Len(matching)},
                     Append(consensus_list,
                            create_consensus_issue(
                                [m \in 1..Len(matching) |-> issues[matching[m]]], matching)))
            ELSE ConsensusLoop(issues, tol, min, order, k + 1, processed, consensus_list)

\* Mutant of find_consensus: the min_agents argument is ignored, one agent
\* is enough for a group.
find_consensus_MinOne(issues, tol, min) ==
    LET r == ConsensusLoop(issues, tol, 1, IssuesByFile(issues), 1, {}, <<>>)
    IN [consensus_issues |-> r.consensus_list,
        rejected_issues |-> SelectSeq([k \in 1..Len(issues) |-> k],
                                      LAMBDA k : k \notin r.processed)]

\* Mutant of find_consensus: a group needs more than min_agents agents.
find_consensus_Strict(issues, tol, min) ==
    LET r == ConsensusLoop(issues, tol, min + 1, IssuesByFile(issues), 1, {}, <<>>)
    IN [consensus_issues |-> r.consensus_list,
        rejected_issues |-> SelectSeq([k \in 1..Len(issues) |-> k],
                                      LAMBDA k : k \notin r.processed)]

\* find_consensus(all_issues, min_agents) of an analyzer whose line_tolerance
\* is tol: (consensus_list, rejected), rejected as positions in all_issues.
find_consensus(issues, tol, min) ==
    LET r == ConsensusLoop(issues, tol, min, IssuesByFile(issues), 1, {}, <<>>)
    IN [consensus_issues |-> r.consensus_list,
        rejected_issues |-> SelectSeq([k \in 1..Len(issues) |-> k],
                                      LAMBDA k : k \notin r.processed)]

\* get_statistics()["auto_fixable"]
AutoFixableCount(consensus_list) ==
    Cardinality({k \in 1..Len(consensus_list) : consensus_list[k].auto_fixable})

\* Bound of the analyzer model: the longest pooled issue list.
MaxIssues == 3

\* The line_tolerance and min_agents values analyzers are built and called with.
Tolerances == {1, 2}
MinAgents == {1, 2, 3}

\* The issues a pooled list is drawn from.
IssuePool ==
    { Issue("dead-code-cleaner", AppTsx, l, "minor", "emoji_detected",
            "Emoji in code", Float(90), TRUE) : l \in {10, 11, 12} }
    \cup { Issue("props-form-validator", AppTsx, l, "important", "emoji_in_code",
                 "Emoji found", Float(98), TRUE) : l \in {10, 11, 12} }
    \cup { Issue("button-validator", AppTsx, 11, "critical", "Emoji Button",
                 "Emoji in button text", Float(50), FALSE),
           Issue("button-validator", AppTsx, 11, "critical", "Missing onClick",
                 "Handler manquant", Float(50), FALSE),
           Issue("dead-code-cleaner", AppTsx, 10, "minor", "console_log",
                 "Console.log oublie", Float(100), TRUE),
           Issue("dead-code-cleaner", DebugJs, 10, "minor", "console_log",
                 "Console.log oublie", Float(100), TRUE),
           Issue("props-form-validator", DebugJs, 10, "minor", "debug_console",
                 "Debug console left", Float(95), TRUE) }

\* A ConsensusAnalyzer(line_tolerance) and the arguments of a call of
\* find_consensus.
InitConsensus ==
    /\ \E n \in 0..MaxIssues : all_issues \in [1..n -> IssuePool]
    /\ line_tolerance \in Tolerances
    /\ min_agents \in MinAgents
    /\ consensus_issues = <<>>
    /\ rejected_issues = <<>>
    /\ pc = "find"
    /\ FixerIdle
    /\ CoordIdle
    /\ ExtIdle

\* find_consensus runs and stores its two lists in the analyzer.
FindConsensus ==
    /\ pc = "find"
    /\ LET r == find_consensus(all_issues, line_tolerance, min_agents)
       IN /\ consensus_issues' = r.consensus_issues
          /\ rejected_issues' = r.rejected_issues
    /\ pc' = "found"
    /\ UNCHANGED <<all_issues, line_tolerance, min_agents>>
    /\ UNCHANGED extVars
    /\ UNCHANGED <<project, backup, fixes, fixes_applied, fixes_failed, syntax_errors,
                   dry_run, cur, session_start, obs>>
    /\ UNCHANGED coordVars

NextConsensus == FindConsensus

SpecConsensus == InitConsensus /\ [][NextConsensus]_vars


(***************************************************************************)
(* AgentCoordinatorV3.run_full_workflow (agent_coordinator_v3.py), the     *)
(* JSON reports of report_converter.py and CodeFixerV3.load_json_reports   *)
(***************************************************************************)

\* self.available_agents, in the order of the dict: all four are enabled.
Agents == <<"button-validator", "props-form-validator", "dead-code-cleaner",
            "consistency-checker">>

AgentNames == {Agents[k] : k \in 1..Len(Agents)}

\* The file names of <session>/1-ANALYSIS/*.json.
ReportFile(agent_name) ==
    CASE agent_name = "button-validator" -> "button-validator.json"
      [] agent_name = "props-form-validator" -> "props-form-validator.json"
      [] agent_name = "dead-code-cleaner" -> "dead-code-cleaner.json"
      [] agent_name = "consistency-checker" -> "consistency-checker.json"

ConsensusFile == "consensus-issues.json"

\* One entry of the "issues" array of an agent's JSON report.
JsonIssue(file, line, severity, type, description, confidence, auto_fixable) ==
    [file |-> file, line |-> line, severity |-> severity, type |-> type,
     description |-> description, solution |-> "Supprimer", old_code |-> <<>>,
     new_code |-> <<>>, confidence |-> confidence, auto_fixable |-> auto_fixable]

\* The JSON document a convert_*_report function returns: "agent",
\* statistics.auto_fixable and "issues".
JsonReport(agent_name, issues) ==
    [agent |-> agent_name,
     auto_fixable |-> Cardinality({k \in 1..Len(issues) : issues[k].auto_fixable}),
     issues |-> issues]

\* convert_button_validator_report: every issue is critical, has confidence
\* 50.0 and is not auto-fixable.
ButtonIssue ==
    JsonIssue(AppTsx, 1, "critical", "Emoji Button", "Emoji in button text",
              Float(50), FALSE)

\* convert_props_form_validator_report: the confidence is the one the agent
\* wrote, and auto_fixable is confidence >= 90.0.
PropsIssue(file, line, severity, type, description, confidence) ==
    JsonIssue(file, line, severity, type, description, confidence, AtLeast(confidence, 90))

PropsEmoji == PropsIssue(AppTsx, 1, "critical", "emoji_detected", "Emoji", Float(98))
PropsConsole == PropsIssue(DebugJs, 1, "minor", "debug_console", "Debug console left", Float(95))
PropsUnsure == PropsIssue(AppTsx, 2, "important", "emoji_in_code", "Emoji found", Float(85))

\* convert_dead_code_cleaner_report: console.log entries first, then the
\* unused imports; all minor and auto-fixable.
DeadConsole ==
    JsonIssue(DebugJs, 1, "minor", "console_log", "Console.log oublie", Float(100), TRUE)
DeadImport ==
    JsonIssue(AppTsx, 1, "minor", "unused_import", "Import 'A' non utilise", Float(95), TRUE)

\* The reports an agent's run may end with once converted to JSON.
\* convert_consistency_checker_report never lists an issue.
Reports(agent_name) ==
    CASE agent_name = "button-validator" ->
             {JsonReport(agent_name, i) : i \in {<<>>, <<ButtonIssue>>}}
      [] agent_name = "props-form-validator" ->
             {JsonReport(agent_name, i) :
                 i \in {<<>>, <<PropsEmoji>>, <<PropsConsole>>, <<PropsEmoji, PropsConsole>>,
                        <<PropsUnsure>>,
                        <<PropsIssue(AppTsx, 2, "important", "emoji_in_code", "Emoji found",
                                     Float(90))>>}}
      [] agent_name = "dead-code-cleaner" ->
             {JsonReport(agent_name, i) :
                 i \in {<<>>, <<DeadConsole>>, <<DeadImport>>, <<DeadConsole, DeadImport>>}}
      [] agent_name = "consistency-checker" ->
             {JsonReport(agent_name, <<>>)}

\* AgentResult(agent_name, status): the fields the workflow reads.
AgentResult(status, issues, auto_fixable_count) ==
    [status |-> status, issues |-> issues, auto_fixable_count |-> auto_fixable_count]

\* parse_agent_report: the Issue objects and the auto_fixable count read back
\* from the agent's JSON report.
parse_agent_report(agent_name, data) ==
    AgentResult("success",
                [k \in 1..Len(data.issues) |->
                    Issue(agent_name, data.issues[k].file, data.issues[k].line,
                          data.issues[k].severity, data.issues[k].type,
                          data.issues[k].description, data.issues[k].confidence,
                          data.issues[k].auto_fixable)],
                data.auto_fixable)

\* The statuses run_agent ends with other than "success".
FailureStatuses == {"error", "timeout"}

\* The state when run_analysis_phase has launched every enabled agent.
InitCoord ==
    /\ auto_mode \in BOOLEAN
    /\ agent_results = [a \in AgentNames |-> AgentResult("running", <<>>, 0)]
    /\ analysis_dir = [q \in {} |-> <<>>]
    /\ summary = [total_agents |-> 0, successful_agents |-> 0, failed_agents |-> 0,
                  auto_fixable_count |-> 0, consensus_enabled |-> TRUE,
                  consensus_count |-> 0, rejected_count |-> 0]
    /\ pc = "analysis"
    /\ AnalyzerIdle
    /\ FixerIdle
    /\ ExtIdle

\* run_agent: the agent's process exits with code 0, its Markdown report is
\* converted, saved as <agent>.json and parsed.
AgentSucceeds(a) ==
    /\ pc = "analysis"
    /\ agent_results[a].status = "running"
    /\ \E data \in Reports(a) :
          /\ analysis_dir' = [q \in DOMAIN analysis_dir \cup {ReportFile(a)} |->
                                 IF q = ReportFile(a) THEN data ELSE analysis_dir[q]]
          /\ agent_results' = [agent_results EXCEPT ![a] = parse_agent_report(a, data)]
    /\ UNCHANGED <<auto_mode, summary, pc>>
    /\ UNCHANGED analyzerVars
    /\ UNCHANGED extVars
    /\ UNCHANGED <<project, backup, fixes, fixes_applied, fixes_failed, syntax_errors,
                   dry_run, cur, session_start, obs>>

\* run_agent: the process exits with code 0 but there is no report to
\* convert (no reports directory, no *.md, unreadable file): no JSON file.
AgentSucceedsWithoutReport(a) ==
    /\ pc = "analysis"
    /\ agent_results[a].status = "running"
    /\ agent_results' = [agent_results EXCEPT ![a] = AgentResult("success", <<>>, 0)]
    /\ UNCHANGED <<auto_mode, analysis_dir, summary, pc>>
    /\ UNCHANGED analyzerVars
    /\ UNCHANGED extVars
    /\ UNCHANGED <<project, backup, fixes, fixes_applied, fixes_failed, syntax_errors,
                   dry_run, cur, session_start, obs>>

\* run_agent: missing script, non-zero exit code, exception or timeout.
AgentFails(a) ==
    /\ pc = "analysis"
    /\ agent_results[a].status = "running"
    /\ \E status \in FailureStatuses :
          agent_results' = [agent_results EXCEPT ![a] = AgentResult(status, <<>>, 0)]
    /\ UNCHANGED <<auto_mode, analysis_dir, summary, pc>>
    /\ UNCHANGED analyzerVars
    /\ UNCHANGED extVars
    /\ UNCHANGED <<project, backup, fixes, fixes_applied, fixes_failed, syntax_errors,
                   dry_run, cur, session_start, obs>>

\* The issues of the successful agents, in the order of agents_to_run.
RECURSIVE ExtendIssues(_, _)
ExtendIssues(results, k) ==
    IF k = 0 THEN <<>>
    ELSE ExtendIssues(results, k - 1)
         \o (IF results[Agents[k]].status = "success" THEN results[Agents[k]].issues
             ELSE <<>>)

\* sum of result.auto_fixable_count over the successful agents
RECURSIVE SumAutoFixable(_, _)
SumAutoFixable(results, k) ==
    IF k = 0 THEN 0
    ELSE SumAutoFixable(results, k - 1)
         + (IF results[Agents[k]].status = "success"
            THEN results[Agents[k]].auto_fixable_count ELSE 0)

\* Mutant of CompileResults: the results are compiled without waiting for
\* every agent to end.
CompileResults_NoBarrier ==
    /\ pc = "analysis"
    /\ LET ok == {a \in AgentNames : agent_results[a].status = "success"}
       IN summary' = [summary EXCEPT
                         !.total_agents = Len(Agents),
                         !.successful_agents = Cardinality(ok),
                         !.failed_agents = Len(Agents) - Cardinality(ok),
                         !.auto_fixable_count = SumAutoFixable(agent_results, Len(Agents))]
    /\ all_issues' = ExtendIssues(agent_results, Len(Agents))
    /\ pc' = "consensus"
    /\ UNCHANGED <<auto_mode, agent_results, analysis_dir>>
    /\ UNCHANGED <<line_tolerance, min_agents, consensus_issues, rejected_issues>>
    /\ UNCHANGED extVars
    /\ UNCHANGED <<project, backup, fixes, fixes_applied, fixes_failed, syntax_errors,
                   dry_run, cur, session_start, obs>>

\* asyncio.gather has returned, every agent has ended: compile_results.
CompileResults ==
    /\ pc = "analysis"
    /\ \A a \in AgentNames : agent_results[a].status # "running"
    /\ LET ok == {a \in AgentNames : agent_results[a].status = "success"}
       IN summary' = [summary EXCEPT
                         !.total_agents = Len(Agents),
                         !.successful_agents = Cardinality(ok),
                         !.failed_agents = Len(Agents) - Cardinality(ok),
                         !.auto_fixable_count = SumAutoFixable(agent_results, Len(Agents))]
    /\ all_issues' = ExtendIssues(agent_results, Len(Agents))
    /\ pc' = "consensus"
    /\ UNCHANGED <<auto_mode, agent_results, analysis_dir>>
    /\ UNCHANGED <<line_tolerance, min_agents, consensus_issues, rejected_issues>>
    /\ UNCHANGED extVars
    /\ UNCHANGED <<project, backup, fixes, fixes_applied, fixes_failed, syntax_errors,
                   dry_run, cur, session_start, obs>>

\* analyze_consensus with fewer than 2 successful agents: consensus is
\* switched off and nothing is saved.
ConsensusDisabled ==
    /\ pc = "consensus"
    /\ summary.successful_agents < 2
    /\ summary' = [summary EXCEPT !.consensus_enabled = FALSE]
    /\ pc' = "choice"
    /\ UNCHANGED <<auto_mode, agent_results, analysis_dir>>
    /\ UNCHANGED analyzerVars
    /\ UNCHANGED extVars
    /\ UNCHANGED <<project, backup, fixes, fixes_applied, fixes_failed, syntax_errors,
                   dry_run, cur, session_start, obs>>

\* The entry save_consensus_issues writes for one ConsensusIssue.
ConsensusJson(issue) ==
    [file |-> issue.file_path, line |-> issue.line_number, type |-> issue.issue_type,
     description |-> issue.description, severity |-> issue.severity,
     old_code |-> issue.old_code, new_code |-> issue.new_code,
     confidence |-> issue.confidence, auto_fixable |-> issue.auto_fixable,
     agreed_by |-> issue.agreed_by, consensus_level |-> issue.consensus_level]

\* save_consensus_issues: the document of consensus-issues.json; it has no
\* "agent" key.
save_consensus_issues(consensus_list) ==
    [consensus_enabled |-> TRUE,
     issues |-> [k \in 1..Len(consensus_list) |-> ConsensusJson(consensus_list[k])]]

\* analyze_consensus with at least 2 successful agents:
\* ConsensusAnalyzer(line_tolerance=2).find_consensus(all_issues, min_agents=2),
\* then save_consensus_issues and the new auto_fixable_count.
AnalyzeConsensus ==
    /\ pc = "consensus"
    /\ summary.successful_agents >= 2
    /\ LET r == find_consensus(all_issues, line_tolerance, min_agents)
       IN /\ consensus_issues' = r.consensus_issues
          /\ rejected_issues' = r.rejected_issues
          /\ summary' = [summary EXCEPT
                            !.consensus_count = Len(r.consensus_issues),
                            !.rejected_count = Len(r.rejected_issues),
                            !.auto_fixable_count = AutoFixableCount(r.consensus_issues)]
          /\ analysis_dir' = [q \in DOMAIN analysis_dir \cup {ConsensusFile} |->
                                 IF q = ConsensusFile
                                 THEN save_consensus_issues(r.consensus_issues)
                                 ELSE analysis_dir[q]]
    /\ pc' = "choice"
    /\ UNCHANGED <<auto_mode, agent_results>>
    /\ UNCHANGED <<all_issues, line_tolerance, min_agents>>
    /\ UNCHANGED extVars
    /\ UNCHANGED <<project, backup, fixes, fixes_applied, fixes_failed, syntax_errors,
                   dry_run, cur, session_start, obs>>

\* After present_analysis_summary: --auto asks nothing, otherwise the user
\* answers [c]; [d] and an invalid answer ask again.
Continue ==
    /\ pc = "choice"
    /\ pc' = "gate"
    /\ UNCHANGED coordVars
    /\ UNCHANGED analyzerVars
    /\ UNCHANGED extVars
    /\ UNCHANGED <<project, backup, fixes, fixes_applied, fixes_failed, syntax_errors,
                   dry_run, cur, session_start, obs>>

\* The user answers [q]: the session ends without corrections.
Quit ==
    /\ pc = "choice"
    /\ ~auto_mode
    /\ pc' = "end"
    /\ UNCHANGED coordVars
    /\ UNCHANGED analyzerVars
    /\ UNCHANGED extVars
    /\ UNCHANGED <<project, backup, fixes, fixes_applied, fixes_failed, syntax_errors,
                   dry_run, cur, session_start, obs>>

\* auto_fixable_count == 0: Code Fixer is not launched.
NothingToFix ==
    /\ pc = "gate"
    /\ summary.auto_fixable_count = 0
    /\ pc' = "end"
    /\ UNCHANGED coordVars
    /\ UNCHANGED analyzerVars
    /\ UNCHANGED extVars
    /\ UNCHANGED <<project, backup, fixes, fixes_applied, fixes_failed, syntax_errors,
                   dry_run, cur, session_start, obs>>

\* The user answers [n] to "Lancer Code Fixer ?".
DeclineFixes ==
    /\ pc = "gate"
    /\ summary.auto_fixable_count # 0
    /\ ~auto_mode
    /\ pc' = "end"
    /\ UNCHANGED coordVars
    /\ UNCHANGED analyzerVars
    /\ UNCHANGED extVars
    /\ UNCHANGED <<project, backup, fixes, fixes_applied, fixes_failed, syntax_errors,
                   dry_run, cur, session_start, obs>>

\* Mutant of FixesOf: the confidence of an auto-fixable issue is not looked at.
FixesOf_NoThreshold(data) ==
    LET agent_name == IF "agent" \in DOMAIN data THEN data.agent ELSE "unknown"
        kept == SelectSeq(data.issues, LAMBDA issue : issue.auto_fixable)
    IN [k \in 1..Len(kept) |->
           NewFix(agent_name, kept[k].file, kept[k].line, kept[k].type,
                  kept[k].description, kept[k].confidence)]

\* The Fix objects load_json_reports makes of one JSON document.
FixesOf(data) ==
    LET agent_name == IF "agent" \in DOMAIN data THEN data.agent ELSE "unknown"
        issues == IF "issues" \in DOMAIN data THEN data.issues ELSE <<>>
        kept == SelectSeq(issues,
                          LAMBDA issue : issue.auto_fixable /\ AtLeast(issue.confidence, 90))
    IN [k \in 1..Len(kept) |->
           NewFix(agent_name, kept[k].file, kept[k].line, kept[k].type,
                  kept[k].description, kept[k].confidence)]

\* The orders in which glob("*.json") may list the files of a directory.
GlobOrders(files) ==
    {o \in [1..Cardinality(files) -> files] : \A f \in files : \E k \in DOMAIN o : o[k] = f}

\* load_json_reports over the files in the given order.
RECURSIVE load_json_reports(_, _, _)
load_json_reports(dir, json_files, k) ==
    IF k = 0 THEN <<>>
    ELSE load_json_reports(dir, json_files, k - 1) \o FixesOf(dir[json_files[k]])

\* Code Fixer is launched (--auto, or the user answers [o]): run_code_fixer
\* starts code_fixer_v3.py on the session, whose run() begins with
\* load_json_reports over every *.json of 1-ANALYSIS.
RunCodeFixer ==
    /\ pc = "gate"
    /\ summary.auto_fixable_count # 0
    /\ \E json_files \in GlobOrders(DOMAIN analysis_dir) :
          fixes' = load_json_reports(analysis_dir, json_files, Len(json_files))
    /\ pc' = IF fixes' = <<>> THEN "end" ELSE "apply"
    /\ UNCHANGED <<auto_mode, agent_results, analysis_dir, summary>>
    /\ UNCHANGED analyzerVars
    /\ UNCHANGED extVars
    /\ UNCHANGED <<project, backup, fixes_applied, fixes_failed, syntax_errors,
                   dry_run, cur, session_start, obs>>

NextCoord ==
    \/ \E a \in AgentNames : AgentSucceeds(a)
    \/ \E a \in AgentNames : AgentSucceedsWithoutReport(a)
    \/ \E a \in AgentNames : AgentFails(a)
    \/ CompileResults
    \/ ConsensusDisabled
    \/ AnalyzeConsensus
    \/ Continue
    \/ Quit
    \/ NothingToFix
    \/ DeclineFixes
    \/ RunCodeFixer

SpecCoord == InitCoord /\ [][NextCoord]_vars


(***************************************************************************)
(* CorrectionValidatorV1 (correction_validator_v1.py) and                  *)
(* ValidationConsensus (validation_consensus.py): two validator passes     *)
(* write validator-1.json and validator-2.json into 1-ANALYSIS, and        *)
(* ValidationConsensus.run compares them.                                  *)
(***************************************************************************)

\* CorrectionValidation, as asdict() writes it into "validations"; the
\* validator's comments are left out.
CorrectionValidation(issue, is_real_error, solution_appropriate, confidence, risk_level, approved) ==
    [source_agent |-> IF "agent" \in DOMAIN issue THEN issue.agent ELSE "unknown",
     file_path |-> issue.file, line_number |-> issue.line, issue_type |-> issue.type,
     original_description |-> issue.description, proposed_solution |-> issue.solution,
     is_real_error |-> is_real_error, solution_appropriate |-> solution_appropriate,
     validation_confidence |-> confidence, risk_level |-> risk_level,
     approved |-> approved]

\* validate_emoji_removal
validate_emoji_removal(issue) ==
    LET file_lower == Lower(Spelling(issue.file))
        is_debug_file == Contains(file_lower, <<"d", "e", "b", "u", "g">>)
        is_test_file == \/ Contains(file_lower, <<"t", "e", "s", "t">>)
                        \/ Contains(file_lower, <<"s", "p", "e", "c">>)
    IN IF is_debug_file
       THEN CorrectionValidation(issue, TRUE, TRUE, Float(85), "low", TRUE)
       ELSE IF is_test_file
       THEN CorrectionValidation(issue, TRUE, TRUE, Float(70), "low", TRUE)
       ELSE CorrectionValidation(issue, TRUE, TRUE, Float(95), "low", TRUE)

\* validate_console_log_removal
validate_console_log_removal(issue) ==
    LET description == Lower(Spelling(issue.description))
        is_debug_log == \/ Contains(description, <<"d", "e", "b", "u", "g">>)
                        \/ Contains(description,
                                    <<"f", "o", "r", "g", "o", "t", "t", "e", "n">>)
        is_debug_file == Contains(Lower(Spelling(issue.file)), <<"d", "e", "b", "u", "g">>)
    IN IF is_debug_file
       THEN CorrectionValidation(issue, FALSE, FALSE, Float(90), "low", FALSE)
       ELSE IF is_debug_log
       THEN CorrectionValidation(issue, TRUE, TRUE, Float(95), "low", TRUE)
       ELSE CorrectionValidation(issue, TRUE, TRUE, Float(70), "medium", FALSE)

\* validate_unused_import
validate_unused_import(issue) ==
    CorrectionValidation(issue, TRUE, TRUE, Float(85), "low", TRUE)

\* Mutant of validate_correction: a type that is not recognized is approved.
validate_correction_ApproveUnknown(agent, issue) ==
    LET issue_type == Lower(Spelling(issue.type))
    IN IF Contains(issue_type, <<"e", "m", "o", "j", "i">>)
       THEN validate_emoji_removal(issue)
       ELSE IF Contains(issue_type, <<"c", "o", "n", "s", "o", "l", "e">>)
       THEN validate_console_log_removal(issue)
       ELSE IF Contains(issue_type, <<"i", "m", "p", "o", "r", "t">>)
       THEN validate_unused_import(issue)
       ELSE [CorrectionValidation(issue, FALSE, FALSE, Float(0), "high", TRUE)
                EXCEPT !.source_agent = agent]

\* validate_correction(agent, issue)
validate_correction(agent, issue) ==
    LET issue_type == Lower(Spelling(issue.type))
    IN IF Contains(issue_type, <<"e", "m", "o", "j", "i">>)
       THEN validate_emoji_removal(issue)
       ELSE IF Contains(issue_type, <<"c", "o", "n", "s", "o", "l", "e">>)
       THEN validate_console_log_removal(issue)
       ELSE IF Contains(issue_type, <<"i", "m", "p", "o", "r", "t">>)
       THEN validate_unused_import(issue)
       ELSE [CorrectionValidation(issue, FALSE, FALSE, Float(0), "high", FALSE)
                EXCEPT !.source_agent = agent]

\* load_analysis_reports over the first k entries of json_files (the glob
\* without consensus-issues.json and the validator reports): the
\* {"agent", "issue"} items of the issues that propose a solution.
RECURSIVE load_analysis_reports(_, _, _)
load_analysis_reports(dir, json_files, k) ==
    IF k = 0 THEN <<>>
    ELSE LET data == dir[json_files[k]]
             agent_name == IF "agent" \in DOMAIN data THEN data.agent ELSE "unknown"
             issues == IF "issues" \in DOMAIN data THEN data.issues ELSE <<>>
             proposed == SelectSeq(issues, LAMBDA issue : issue.solution \notin {"", " "})
         IN load_analysis_reports(dir, json_files, k - 1)
            \o [n \in 1..Len(proposed) |-> [agent |-> agent_name, issue |-> proposed[n]]]

\* find_matching_validation: the position of the first validation of
\* validator 2 with the file, line and type of val1; 0 stands for None.
find_matching_validation(val1, validations2) ==
    LET same == {n \in 1..Len(validations2) :
                    /\ val1.file_path = validations2[n].file_path
                    /\ val1.line_number = validations2[n].line_number
                    /\ val1.issue_type = validations2[n].issue_type}
    IN IF same = {} THEN 0 ELSE CHOOSE n \in same : \A m \in same : n <= m

\* compare_validations from the k-th validation of validator 1 on; acc holds
\* the three lists and the three counters.
RECURSIVE compare_validations(_, _, _, _)
compare_validations(validations1, validations2, k, acc) ==
    IF k > Len(validations1) THEN acc
    ELSE LET val1 == validations1[k]
             n == find_matching_validation(val1, validations2)
             val2 == validations2[n]
             avg_confidence == FloatDiv(FloatAdd(val1.validation_confidence,
                                                 val2.validation_confidence), 2)
             consensus ==
                 [file_path |-> val1.file_path, line_number |-> val1.line_number,
                  issue_type |-> val1.issue_type,
                  validator1_approved |-> val1.approved,
                  validator2_approved |-> val2.approved,
                  average_confidence |-> avg_confidence,
                  source_agent |-> val1.source_agent,
                  consensus_approved |-> val1.approved /\ val2.approved]
             seen == [acc EXCEPT !.consensus_validations = Append(@, consensus)]
         IN IF n = 0
            THEN compare_validations(validations1, validations2, k + 1, acc)
            ELSE IF val1.approved /\ val2.approved
            THEN compare_validations(validations1, validations2, k + 1,
                     [seen EXCEPT
                        !.both_approved = @ + 1,
                        !.approved_corrections =
                            Append(@, [file |-> val1.file_path, line |-> val1.line_number,
                                       type |-> val1.issue_type,
                                       description |-> val1.original_description,
                                       solution |-> val1.proposed_solution,
                                       confidence |-> avg_confidence,
                                       auto_fixable |-> TRUE,
                                       agent |-> val1.source_agent])])
            ELSE IF ~val1.approved /\ ~val2.approved
            THEN compare_validations(validations1, validations2, k + 1,
                     [seen EXCEPT !.both_rejected = @ + 1])
            ELSE compare_validations(validations1, validations2, k + 1,
                     [seen EXCEPT
                        !.disagreement = @ + 1,
                        !.rejected_corrections =
                            Append(@, [file |-> val1.file_path, line |-> val1.line_number,
                                       type |-> val1.issue_type])])

\* The reports an agent may have written when the validators run.
ReportsToValidate(agent_name) ==
    LET ConsoleDebug == JsonIssue(AppTsx, 1, "minor", "console_log",
                                  "Debug console left", Float(95), TRUE)
        ConsoleUnsure == JsonIssue(AppTsx, 1, "minor", "console_log",
                                   "Console.log oublie", Float(100), TRUE)
    IN
    CASE agent_name = "button-validator" ->
             {JsonReport(agent_name, i) :
                 i \in {<<[ButtonIssue EXCEPT !.type = "Missing onClick"]>>,
                        <<[ButtonIssue EXCEPT !.solution = ""]>>}}
      [] agent_name = "props-form-validator" ->
             {JsonReport(agent_name, i) :
                 i \in {<<PropsEmoji>>, <<ConsoleDebug>>, <<PropsConsole>>,
                        <<[PropsUnsure EXCEPT !.file = "src/App.test.tsx"]>>,
                        <<[PropsUnsure EXCEPT !.file = DebugJs]>>}}
      [] agent_name = "dead-code-cleaner" ->
             {JsonReport(agent_name, i) :
                 i \in {<<ConsoleUnsure>>, <<DeadImport>>, <<ConsoleUnsure, DeadImport>>}}

\* A session whose 1-ANALYSIS is still empty.
InitValidation ==
    /\ pc = "validate"
    /\ analysis_dir = [q \in {} |-> <<>>]
    /\ auto_mode = FALSE
    /\ agent_results = <<>>
    /\ summary = [q \in {} |-> 0]
    /\ ExtIdle
    /\ FixerIdle
    /\ AnalyzerIdle

\* run_agent saves an agent's converted report into 1-ANALYSIS.
ReportArrives(a) ==
    /\ pc = "validate"
    /\ ReportFile(a) \notin DOMAIN analysis_dir
    /\ \E data \in ReportsToValidate(a) :
          analysis_dir' = [f \in DOMAIN analysis_dir \cup {ReportFile(a)} |->
                              IF f = ReportFile(a) THEN data ELSE analysis_dir[f]]
    /\ UNCHANGED <<auto_mode, agent_results, summary, pc>>
    /\ UNCHANGED <<fixerVars, analyzerVars, extVars>>

\* Mutant of RunValidation: validator 2 approves nothing.
RunValidation_SecondStricter(validator_id) ==
    /\ pc = "validate"
    /\ \E json_files \in GlobOrders(DOMAIN analysis_dir
                                       \ {ConsensusFile, "validator-1.json", "validator-2.json"}) :
          LET all_issues_ == load_analysis_reports(analysis_dir, json_files,
                                                   Len(json_files))
              report_file == IF validator_id = 1 THEN "validator-1.json"
                             ELSE "validator-2.json"
              validations ==
                  [n \in 1..Len(all_issues_) |->
                      [validate_correction(
                           all_issues_[n].agent,
                           [agent |-> all_issues_[n].agent] @@ all_issues_[n].issue)
                       EXCEPT !.approved = @ /\ validator_id = 1]]
              report_data == [validator |-> validator_id, validations |-> validations]
          IN IF all_issues_ = <<>>
             THEN UNCHANGED analysis_dir
             ELSE analysis_dir' = [f \in DOMAIN analysis_dir \cup {report_file} |->
                                      IF f = report_file THEN report_data
                                      ELSE analysis_dir[f]]
    /\ UNCHANGED <<auto_mode, agent_results, summary, pc>>
    /\ UNCHANGED <<fixerVars, analyzerVars, extVars>>

\* CorrectionValidatorV1(validator_id).run_validation: nothing is saved when
\* there is no correction to validate; else issue["agent"] = agent and
\* validate_correction item by item, and validator-<id>.json is written.
RunValidation(validator_id) ==
    /\ pc = "validate"
    /\ \E json_files \in GlobOrders(DOMAIN analysis_dir
                                       \ {ConsensusFile, "validator-1.json", "validator-2.json"}) :
          LET all_issues_ == load_analysis_reports(analysis_dir, json_files,
                                                   Len(json_files))
              report_file == IF validator_id = 1 THEN "validator-1.json"
                             ELSE "validator-2.json"
              validations ==
                  [n \in 1..Len(all_issues_) |->
                      validate_correction(
                          all_issues_[n].agent,
                          [agent |-> all_issues_[n].agent] @@ all_issues_[n].issue)]
              report_data == [validator |-> validator_id, validations |-> validations]
          IN IF all_issues_ = <<>>
             THEN UNCHANGED analysis_dir
             ELSE analysis_dir' = [f \in DOMAIN analysis_dir \cup {report_file} |->
                                      IF f = report_file THEN report_data
                                      ELSE analysis_dir[f]]
    /\ UNCHANGED <<auto_mode, agent_results, summary, pc>>
    /\ UNCHANGED <<fixerVars, analyzerVars, extVars>>

\* ValidationConsensus.run when load_validator_reports finds a report missing.
LoadValidatorReportsFails ==
    /\ pc = "validate"
    /\ ~({"validator-1.json", "validator-2.json"} \subseteq DOMAIN analysis_dir)
    /\ pc' = "end"
    /\ UNCHANGED <<analyzerVars, coordVars, extVars>>
    /\ UNCHANGED <<project, backup, fixes, fixes_applied, fixes_failed, syntax_errors,
                   dry_run, cur, session_start, obs>>

\* ValidationConsensus.run: load_validator_reports, compare_validations and,
\* when a correction was approved, save_consensus_report.
CompareValidations ==
    /\ pc = "validate"
    /\ {"validator-1.json", "validator-2.json"} \subseteq DOMAIN analysis_dir
    /\ LET acc == compare_validations(
                      analysis_dir["validator-1.json"].validations,
                      analysis_dir["validator-2.json"].validations, 1,
                      [consensus_validations |-> <<>>, approved_corrections |-> <<>>,
                       rejected_corrections |-> <<>>, both_approved |-> 0,
                       both_rejected |-> 0, disagreement |-> 0])
           consensus_file == "consensus-validated-corrections.json"
       IN /\ consensus_validations' = acc.consensus_validations
          /\ approved_corrections' = acc.approved_corrections
          /\ rejected_corrections' = acc.rejected_corrections
          /\ tally' = [both_approved |-> acc.both_approved,
                       both_rejected |-> acc.both_rejected,
                       disagreement |-> acc.disagreement]
          /\ IF acc.both_approved > 0
             THEN analysis_dir' =
                      [f \in DOMAIN analysis_dir \cup {consensus_file} |->
                          IF f = consensus_file
                          THEN [consensus_type |-> "dual_validation",
                                issues |-> acc.approved_corrections]
                          ELSE analysis_dir[f]]
             ELSE UNCHANGED analysis_dir
    /\ pc' = "compared"
    /\ UNCHANGED <<auto_mode, agent_results, summary>>
    /\ UNCHANGED <<analyzerVars, result, session, printed>>
    /\ UNCHANGED <<project, backup, fixes, fixes_applied, fixes_failed, syntax_errors,
                   dry_run, cur, session_start, obs>>

NextValidation ==
    \/ \E a \in {"button-validator", "props-form-validator", "dead-code-cleaner"} :
          ReportArrives(a)
    \/ \E validator_id \in {1, 2} : RunValidation(validator_id)
    \/ LoadValidatorReportsFails
    \/ CompareValidations

SpecValidation == InitValidation /\ [][NextValidation]_vars


(***************************************************************************)
(* ConsensusAnalyzerV2 (consensus_analyzer_v2.py): consensus by file.      *)
(* Issues are named by their positions in all_issues.                      *)
(***************************************************************************)

\* Mutant of find_consensus_V2: every issue of a file counts as auto-fixable.
find_consensus_V2_AllIssues(issues, min) ==
    LET n == Len(issues)
        FirstOfAgent(i) == CHOOSE j \in 1..n :
            /\ issues[j].file_path = issues[i].file_path /\ issues[j].agent = issues[i].agent
            /\ \A k \in 1..n :
                  (issues[k].file_path = issues[i].file_path /\ issues[k].agent = issues[i].agent)
                      => j <= k
        Earlier(i, j) ==
            \/ FirstSeen(issues, i) < FirstSeen(issues, j)
            \/ FirstSeen(issues, i) = FirstSeen(issues, j) /\ FirstOfAgent(i) < FirstOfAgent(j)
            \/ FirstSeen(issues, i) = FirstSeen(issues, j) /\ FirstOfAgent(i) = FirstOfAgent(j)
               /\ i < j
        order == [k \in 1..n |->
                     CHOOSE i \in 1..n : Cardinality({j \in 1..n : Earlier(j, i)}) = k - 1]
        agents(h) == SelectSeq(order, LAMBDA i : FirstSeen(issues, i) = h /\ FirstOfAgent(i) = i)
        all_file_issues(h) == SelectSeq(order, LAMBDA i : FirstSeen(issues, i) = h)
        auto_fixable_file_issues(h) ==
            SelectSeq(order, LAMBDA i : FirstSeen(issues, i) = h /\ TRUE)
        validated(h) == Len(agents(h)) >= min
        files == SelectSeq(order, LAMBDA i : FirstSeen(issues, i) = i)
        file_consensus(h) ==
            [file_path |-> issues[h].file_path,
             agents_count |-> Len(agents(h)),
             agents |-> [k \in 1..Len(agents(h)) |-> issues[agents(h)[k]].agent],
             total_issues |-> Len(all_file_issues(h)),
             auto_fixable_issues |-> auto_fixable_file_issues(h),
             all_issues |-> all_file_issues(h)]
        validated_heads == SelectSeq(files, validated)
        rejected_heads == SelectSeq(files, LAMBDA h : ~validated(h))
    IN [validated_files |-> [k \in 1..Len(validated_heads) |->
                                file_consensus(validated_heads[k])],
        rejected_files |-> [k \in 1..Len(rejected_heads) |->
                               issues[rejected_heads[k]].file_path],
        validated_issues |->
            SelectSeq(order, LAMBDA i : validated(FirstSeen(issues, i)) /\ TRUE),
        rejected_issues |->
            SelectSeq(order, LAMBDA i : ~validated(FirstSeen(issues, i)) /\ TRUE)]

\* ConsensusAnalyzerV2(min).find_consensus(issues): the files in the order
\* they are first seen, in each file the agents in the order they are first
\* seen, and each agent's issues in list order.
find_consensus_V2(issues, min) ==
    LET n == Len(issues)
        FirstOfAgent(i) == CHOOSE j \in 1..n :
            /\ issues[j].file_path = issues[i].file_path /\ issues[j].agent = issues[i].agent
            /\ \A k \in 1..n :
                  (issues[k].file_path = issues[i].file_path /\ issues[k].agent = issues[i].agent)
                      => j <= k
        Earlier(i, j) ==
            \/ FirstSeen(issues, i) < FirstSeen(issues, j)
            \/ FirstSeen(issues, i) = FirstSeen(issues, j) /\ FirstOfAgent(i) < FirstOfAgent(j)
            \/ FirstSeen(issues, i) = FirstSeen(issues, j) /\ FirstOfAgent(i) = FirstOfAgent(j)
               /\ i < j
        order == [k \in 1..n |->
                     CHOOSE i \in 1..n : Cardinality({j \in 1..n : Earlier(j, i)}) = k - 1]
        agents(h) == SelectSeq(order, LAMBDA i : FirstSeen(issues, i) = h /\ FirstOfAgent(i) = i)
        all_file_issues(h) == SelectSeq(order, LAMBDA i : FirstSeen(issues, i) = h)
        auto_fixable_file_issues(h) ==
            SelectSeq(order, LAMBDA i : FirstSeen(issues, i) = h /\ issues[i].auto_fixable)
        validated(h) == Len(agents(h)) >= min
        files == SelectSeq(order, LAMBDA i : FirstSeen(issues, i) = i)
        file_consensus(h) ==
            [file_path |-> issues[h].file_path,
             agents_count |-> Len(agents(h)),
             agents |-> [k \in 1..Len(agents(h)) |-> issues[agents(h)[k]].agent],
             total_issues |-> Len(all_file_issues(h)),
             auto_fixable_issues |-> auto_fixable_file_issues(h),
             all_issues |-> all_file_issues(h)]
        validated_heads == SelectSeq(files, validated)
        rejected_heads == SelectSeq(files, LAMBDA h : ~validated(h))
    IN [validated_files |-> [k \in 1..Len(validated_heads) |->
                                file_consensus(validated_heads[k])],
        rejected_files |-> [k \in 1..Len(rejected_heads) |->
                               issues[rejected_heads[k]].file_path],
        validated_issues |->
            SelectSeq(order, LAMBDA i : validated(FirstSeen(issues, i)) /\ issues[i].auto_fixable),
        rejected_issues |->
            SelectSeq(order, LAMBDA i : ~validated(FirstSeen(issues, i)) /\ issues[i].auto_fixable)]

\* A ConsensusAnalyzerV2(min_agents) and the argument of find_consensus.
InitConsensusV2 ==
    /\ \E n \in 0..MaxIssues : all_issues \in [1..n -> IssuePool]
    /\ min_agents \in MinAgents
    /\ line_tolerance = 2
    /\ consensus_issues = <<>>
    /\ rejected_issues = <<>>
    /\ pc = "find_v2"
    /\ ExtIdle
    /\ FixerIdle
    /\ CoordIdle

\* find_consensus runs and stores its ConsensusResultV2 in self.result.
FindConsensusV2 ==
    /\ pc = "find_v2"
    /\ result' = find_consensus_V2(all_issues, min_agents)
    /\ pc' = "found_v2"
    /\ UNCHANGED <<analyzerVars, coordVars, validationVars, session, printed>>
    /\ UNCHANGED <<project, backup, fixes, fixes_applied, fixes_failed, syntax_errors,
                   dry_run, cur, session_start, obs>>

NextConsensusV2 == FindConsensusV2

SpecConsensusV2 == InitConsensusV2 /\ [][NextConsensusV2]_vars


(***************************************************************************)
(* CodeFixer (V2): main --rollback and rollback_session                    *)
(***************************************************************************)

\* main --rollback has pointed self.session at the backup directory of an
\* earlier session and listed its files into files_modified; it now waits
\* for the answer to "Continuer ?".  The files that session backed up have
\* since lost their first line in the project.
InitRollbackV2 ==
    /\ session_start \in InitialProjects
    /\ \E S \in (SUBSET DOMAIN session_start) \ {{}} :
          /\ project = [f \in DOMAIN session_start |->
                            IF f \in S
                            THEN WriteLines(DelAt(ReadLines(session_start[f]), 1))
                            ELSE session_start[f]]
          /\ \E listing \in GlobOrders(S) :
                session = [backup_dir |-> [f \in S |-> session_start[f]],
                           files_modified |-> listing]
    /\ printed = 0
    /\ pc = "confirm"
    /\ backup = [q \in {} |-> <<>>]
    /\ fixes = <<>> /\ fixes_applied = <<>> /\ fixes_failed = <<>>
    /\ syntax_errors = <<>> /\ dry_run = FALSE /\ cur = 0 /\ obs = <<>>
    /\ AnalyzerIdle
    /\ CoordIdle
    /\ consensus_validations = <<>>
    /\ approved_corrections = <<>>
    /\ rejected_corrections = <<>>
    /\ tally = [both_approved |-> 0, both_rejected |-> 0, disagreement |-> 0]
    /\ result = <<>>

\* While main waits at the prompt a backup copy disappears from the backup
\* directory: rollback_file will find backup_path.exists() false.
BackupRemoved(f) ==
    /\ pc = "confirm"
    /\ f \in DOMAIN session.backup_dir
    /\ session' = [session EXCEPT
                      !.backup_dir = [q \in DOMAIN session.backup_dir \ {f} |->
                                         session.backup_dir[q]]]
    /\ UNCHANGED <<analyzerVars, coordVars, validationVars, result, printed>>
    /\ UNCHANGED <<project, backup, fixes, fixes_applied, fixes_failed, syntax_errors,
                   dry_run, pc, cur, session_start, obs>>

\* The answer to the prompt.  On yes rollback_session calls rollback_file
\* on every entry of files_modified (copy2 when the backup exists, nothing
\* otherwise) and prints how many files it restored: len(files_modified).
Rollback(confirm) ==
    /\ pc = "confirm"
    /\ IF confirm
       THEN LET listed == {session.files_modified[k] : k \in 1..Len(session.files_modified)}
            IN /\ project' = [f \in DOMAIN project |->
                                 IF f \in listed /\ f \in DOMAIN session.backup_dir
                                 THEN session.backup_dir[f]
                                 ELSE project[f]]
               /\ printed' = Len(session.files_modified)
               /\ pc' = "rolled_back"
       ELSE /\ pc' = "declined"
            /\ UNCHANGED <<project, printed>>
    /\ UNCHANGED <<analyzerVars, coordVars, validationVars, result, session>>
    /\ UNCHANGED <<backup, fixes, fixes_applied, fixes_failed, syntax_errors,
                   dry_run, cur, session_start, obs>>

NextRollbackV2 ==
    \/ \E f \in {AppTsx, DebugJs, ReadmeMd} : BackupRemoved(f)
    \/ \E confirm \in BOOLEAN : Rollback(confirm)

SpecRollbackV2 == InitRollbackV2 /\ [][NextRollbackV2]_vars


(***************************************************************************)
(* Properties of CodeFixerV3 (checked under SpecFixer)                     *)
(***************************************************************************)

InList(list, i) == \E k \in 1..Len(list) : list[k] = i

\* The Fix apply_all_fixes recorded last, 0 when there is none yet.
LastProcessed == IF Processed = 0 THEN 0 ELSE ProcessingOrder(fixes)[Processed]

\* C2: the session's backup copy of every touched file is identical to the
\* content the file had before the first fix of the session.
C2_BackupIsPreSession ==
    \A f \in DOMAIN backup : backup[f] = session_start[f]

C4_BackupBeforeWrite ==
    /\ pc = "transform" =>
          /\ fixes[cur].file_path \in DOMAIN backup
          /\ backup[fixes[cur].file_path] = project[fixes[cur].file_path]
    /\ \A f \in DOMAIN project : project[f] # session_start[f] => f \in DOMAIN backup
    /\ \A i \in 1..Len(fixes) :
          /\ obs[i].wrote => fixes[i].file_path \in DOMAIN backup
          /\ fixes[i].error.text = "Fichier introuvable" => ~obs[i].wrote
    /\ DOMAIN project = DOMAIN session_start

\* Witness of C4: a fix has rewritten its file with a different content.
C4_Witness ==
    \E i \in 1..Len(fixes) :
        /\ obs[i].wrote
        /\ pc = "verify" /\ cur = i
        /\ project[fixes[i].file_path] # obs[i].before

\* Two fixes that are the same Fix: same file, line, type and description.
SameFix(a, b) ==
    /\ a.file_path = b.file_path
    /\ a.line_number = b.line_number
    /\ a.fix_type = b.fix_type
    /\ a.description = b.description

\* C5: applying the same Fix a second time, right after its first
\* application succeeded, fails at the transform step and leaves the file
\* unchanged; it is never a second successful mutation.
C5_SecondApplicationFails ==
    \A k \in 1..(Processed - 1) :
        LET i == ProcessingOrder(fixes)[k]
            j == ProcessingOrder(fixes)[k + 1]
        IN (/\ SameFix(fixes[i], fixes[j])
            /\ fixes[i].fix_type \in SupportedTypes
            /\ ~dry_run
            /\ fixes[i].success)
           => /\ obs[j].transformed = "failed"
              /\ ~obs[j].wrote
              /\ ~fixes[j].success

\* C6: a fix whose target line does not hold the pattern of its fix type
\* fails at the transform step and the file content is left unchanged.
C6_AbsentPatternFails ==
    \A i \in 1..Len(fixes) :
        (/\ obs[i].transformed \in {"ok", "failed"}
         /\ fixes[i].line_number \in 1..Len(ReadLines(obs[i].before))
         /\ ~PatternPresent(obs[i].before, fixes[i]))
        => /\ obs[i].transformed = "failed"
           /\ ~obs[i].wrote

\* C7: every fix in fixes_failed has success = false and a non-empty error.
C7_FailedHasError ==
    \A k \in 1..Len(fixes_failed) :
        /\ ~fixes[fixes_failed[k]].success
        /\ fixes[fixes_failed[k]].error.text # ""

\* C8: however one fix fails, the run ends with each loaded fix recorded in
\* fixes_applied or in fixes_failed.
C8_EveryFixRecorded ==
    pc \in {"done", "crashed"} =>
        \A i \in 1..Len(fixes) : InList(fixes_applied, i) \/ InList(fixes_failed, i)

\* The statement of C9 for the state after apply_all_fixes.
SuccessIffCommitted ==
    \A i \in 1..Len(fixes) :
        /\ fixes[i].applied
        /\ fixes[i].success <=> (obs[i].transformed = "ok" /\ obs[i].verdict = "passed")
        /\ fixes[i].success <=> InList(fixes_applied, i)
        /\ ~fixes[i].success <=> InList(fixes_failed, i)
        /\ ~(InList(fixes_applied, i) /\ InList(fixes_failed, i))

\* C9 as claimed: after apply_all_fixes every fix has applied = true, and
\* success = true holds exactly for the fixes whose transform succeeded and
\* whose verification passed, which are exactly those in fixes_applied.
C9_SuccessIffCommitted == pc = "done" => SuccessIffCommitted

\* C9 amended: the same, for a run that is not a dry run.
C9_SuccessIffCommittedUnlessDryRun ==
    (pc = "done" /\ ~dry_run) => SuccessIffCommitted

\* Witness of C9: a finished run with a committed fix and a rolled-back fix.
C9_Witness ==
    /\ pc = "done" /\ ~dry_run
    /\ \E i, j \in 1..Len(fixes) :
          /\ fixes[i].success /\ obs[i].verdict = "passed"
          /\ ~fixes[j].success /\ obs[j].verdict = "failed"

\* C18: a fix committed while no syntax checker could be run (suffix outside
\* .ts/.tsx/.js/.jsx, or node and tsc not installed) is in fixes_applied with
\* success = true, and the audit trail carries a mark of it: the Fix record
\* has a non-empty error text or syntax_errors has an entry for the fix (the
\* report is built from these fields only).
C18_DegradedModeMarked ==
    \A i \in 1..Len(fixes) :
        (obs[i].verdict = "passed" /\ ~obs[i].verified) =>
            /\ fixes[i].success
            /\ \E k \in 1..Len(fixes_applied) : fixes_applied[k] = i
            /\ \/ fixes[i].error # NoError
               \/ \E k \in 1..Len(syntax_errors) :
                     /\ syntax_errors[k].file = fixes[i].file_path
                     /\ syntax_errors[k].line = fixes[i].line_number
                     /\ syntax_errors[k].fix_type = fixes[i].fix_type

\* C19: in a dry run no project file changes, the backup directory stays
\* empty, no step of apply_fix beyond the dry-run test runs, and every
\* processed fix is only recorded in fixes_applied or fixes_failed.
C19_DryRunTouchesNothing ==
    dry_run =>
        /\ project = session_start
        /\ DOMAIN backup = {}
        /\ syntax_errors = <<>>
        /\ \A i \in 1..Len(fixes) :
              /\ ~obs[i].wrote
              /\ fixes[i].applied =>
                    \E k \in 1..Processed :
                        (fixes_applied \o fixes_failed)[k] = i

\* Witness of C19: a finished dry run that reported a fix whose line holds
\* the pattern of its type, so that a real run would have rewritten it.
C19_Witness ==
    /\ dry_run /\ pc = "done"
    /\ \E i \in 1..Len(fixes) :
          /\ fixes[i].success /\ fixes[i].old_code = DryRunOld
          /\ PatternPresent(project[fixes[i].file_path], fixes[i])
    /\ \E j \in 1..Len(fixes) : ~fixes[j].success

\* The lines new are the lines old with line n edited or removed and every
\* other line as it was.
OnlyLineChanged(old, new, n) ==
    /\ n \in 1..Len(old)
    /\ \/ new = DelAt(old, n)
       \/ /\ Len(new) = Len(old)
          /\ \A k \in 1..Len(old) : k # n => new[k] = old[k]

\* C24: the step in which an apply_* method writes the file of a fix (the
\* fix is committed when verify_syntax then accepts) changes only the line
\* at fix.line_number of fix.file_path, by editing or removing it; all other
\* lines of the file and all other project files stay as they were.
C24_OnlyTargetLine ==
    [][(pc = "transform" /\ pc' = "verify") =>
          /\ \A g \in DOMAIN project :
                g # fixes[cur].file_path => project'[g] = project[g]
          /\ DOMAIN project' = DOMAIN project
          /\ OnlyLineChanged(ReadLines(project[fixes[cur].file_path]),
                             ReadLines(project'[fixes[cur].file_path]),
                             fixes[cur].line_number)]_vars

\* C26: a fix of a supported type whose line_number is outside 1..N, N
\* being the number of lines its file had when apply_fix reached it (0 and
\* negative numbers included), is not committed: success is false, the
\* error is the out-of-range error, and no apply_* method wrote the file.
C26_OutOfRangeFails ==
    \A i \in 1..Len(fixes) :
        (/\ obs[i].transformed \in {"ok", "failed"}
         /\ fixes[i].line_number \notin 1..Len(ReadLines(obs[i].before))) =>
            /\ ~obs[i].wrote
            /\ obs[i].transformed = "failed"
            /\ fixes[i].error.text = "Ligne hors limites"
            /\ fixes[i].applied => ~fixes[i].success



(***************************************************************************)
(* Properties of ConsensusAnalyzer (checked under SpecConsensus)           *)
(***************************************************************************)

\* C10: for every ConsensusIssue find_consensus returns, consensus_level
\* equals the number of entries of agreed_by, the entries of agreed_by are
\* pairwise distinct agents, and consensus_level is at least min_agents.
C10_ConsensusLevel ==
    pc = "found" =>
        \A k \in 1..Len(consensus_issues) :
            LET c == consensus_issues[k]
            IN /\ c.consensus_level = Len(c.agreed_by)
               /\ \A m, n \in 1..Len(c.agreed_by) : m # n => c.agreed_by[m] # c.agreed_by[n]
               /\ c.consensus_level >= min_agents

\* Witness of C10: a ConsensusIssue of two agents, while a second issue of
\* one of them matches the seed as well and was left out of the group.
C10_Witness ==
    /\ pc = "found"
    /\ min_agents = 2
    /\ \E k \in 1..Len(consensus_issues) :
          LET c == consensus_issues[k]
          IN /\ c.consensus_level = 2
             /\ \E j \in 1..Len(all_issues) :
                   /\ \A m \in 1..Len(c.source_issues) : c.source_issues[m] # j
                   /\ issues_match(all_issues[c.source_issues[1]], all_issues[j],
                                   line_tolerance)
                   /\ \E m \in 1..Len(c.agreed_by) : c.agreed_by[m] = all_issues[j].agent

\* The positions of all_issues that are in source_issues of the k-th
\* ConsensusIssue.
GroupOf(k) ==
    {consensus_issues[k].source_issues[m] : m \in 1..Len(consensus_issues[k].source_issues)}

\* C11: in one find_consensus run every input issue is in the source_issues
\* of at most one ConsensusIssue (and at most once in it), and it is in
\* rejected exactly when it is in none.
C11_Partition ==
    pc = "found" =>
        /\ \A k1, k2 \in 1..Len(consensus_issues) :
               k1 # k2 => GroupOf(k1) \cap GroupOf(k2) = {}
        /\ \A k \in 1..Len(consensus_issues) :
               /\ Cardinality(GroupOf(k)) = Len(consensus_issues[k].source_issues)
               /\ GroupOf(k) \subseteq 1..Len(all_issues)
        /\ \A j \in 1..Len(all_issues) :
               InList(rejected_issues, j)
                   <=> ~\E k \in 1..Len(consensus_issues) : j \in GroupOf(k)
        /\ \A m, n \in 1..Len(rejected_issues) :
               m # n => rejected_issues[m] # rejected_issues[n]

\* Witness of C11: a validated group, a rejected issue, and the rejected
\* issue matches the seed of the group (it lost to an issue of its own agent).
C11_Witness ==
    /\ pc = "found"
    /\ \E k \in 1..Len(consensus_issues), r \in 1..Len(rejected_issues) :
          /\ Len(consensus_issues[k].source_issues) >= 2
          /\ issues_match(all_issues[consensus_issues[k].source_issues[1]],
                          all_issues[rejected_issues[r]], line_tolerance)

\* What find_consensus makes of all_issues taken in the order perm: the
\* validated groups and the rejected issues, as positions of all_issues.
GroupingUnder(perm) ==
    LET r == find_consensus([k \in 1..Len(all_issues) |-> all_issues[perm[k]]],
                            line_tolerance, min_agents)
    IN [groups |-> { {perm[r.consensus_issues[k].source_issues[m]] :
                          m \in 1..Len(r.consensus_issues[k].source_issues)} :
                       k \in 1..Len(r.consensus_issues) },
        rejected |-> {perm[r.rejected_issues[k]] : k \in 1..Len(r.rejected_issues)}]

\* C12: the final grouping of find_consensus does not depend on the order
\* of the input list: every permutation of the same issues gives the same
\* groups and the same rejected issues (stated for lists whose issues are
\* pairwise different, so that a position stands for one issue).
C12_OrderIndependent ==
    (/\ pc = "found"
     /\ \A m, n \in 1..Len(all_issues) : m # n => all_issues[m] # all_issues[n]) =>
        \A perm \in Permutations(1..Len(all_issues)) :
            GroupingUnder(perm) = GroupingUnder([k \in 1..Len(all_issues) |-> k])

\* C13: issues_match(A, B) is true exactly when A and B have the same
\* file_path, line numbers at most line_tolerance apart and the same
\* canonical type; and issues_match(A, B) = issues_match(B, A).
C13_IssuesMatch ==
    \A a, b \in 1..Len(all_issues) :
        LET A == all_issues[a]
            B == all_issues[b]
        IN /\ issues_match(A, B, line_tolerance)
               <=> /\ A.file_path = B.file_path
                   /\ A.line_number - B.line_number \in (-line_tolerance)..line_tolerance
                   /\ NormalizedType[A.issue_type] = NormalizedType[B.issue_type]
           /\ issues_match(A, B, line_tolerance) = issues_match(B, A, line_tolerance)

\* Witness of C13: two issues of differently spelled types that match at
\* exactly line_tolerance lines apart, the later one first in the list, and
\* a third issue of the same file and canonical type one line too far.
C13_Witness ==
    \E a, b, c \in 1..Len(all_issues) :
        /\ a < b
        /\ all_issues[a].issue_type # all_issues[b].issue_type
        /\ all_issues[a].line_number - all_issues[b].line_number = line_tolerance
        /\ issues_match(all_issues[a], all_issues[b], line_tolerance)
        /\ all_issues[c].file_path = all_issues[a].file_path
        /\ NormalizedType[all_issues[c].issue_type] = NormalizedType[all_issues[a].issue_type]
        /\ all_issues[a].line_number - all_issues[c].line_number = line_tolerance + 1
        /\ ~issues_match(all_issues[a], all_issues[c], line_tolerance)

\* The pooled list is one corroborated cluster: at least min_agents issues,
\* of pairwise distinct agents, in one file, of one canonical type, any two
\* of them at most line_tolerance lines apart.
OneCluster ==
    /\ Len(all_issues) >= min_agents
    /\ Len(all_issues) >= 1
    /\ \A a, b \in 1..Len(all_issues) :
          /\ a # b => all_issues[a].agent # all_issues[b].agent
          /\ all_issues[a].file_path = all_issues[b].file_path
          /\ NormalizedType[all_issues[a].issue_type] = NormalizedType[all_issues[b].issue_type]
          /\ all_issues[a].line_number - all_issues[b].line_number
                 \in (-line_tolerance)..line_tolerance

Corroborates(k, j) ==
    /\ all_issues[k].agent # all_issues[j].agent
    /\ all_issues[k].file_path = all_issues[j].file_path
    /\ NormalizedType[all_issues[k].issue_type] = NormalizedType[all_issues[j].issue_type]
    /\ all_issues[k].line_number - all_issues[j].line_number
           \in (-line_tolerance)..line_tolerance

\* C22: with min_agents >= 2, an issue that no issue of the input
\* corroborates is in rejected and in the source_issues of no ConsensusIssue.
C22_LoneIssueRejected ==
    (pc = "found" /\ min_agents >= 2) =>
        \A j \in 1..Len(all_issues) :
            (~\E k \in 1..Len(all_issues) : Corroborates(k, j)) =>
                /\ InList(rejected_issues, j)
                /\ \A g \in 1..Len(consensus_issues) : j \notin GroupOf(g)

\* Witness of C22: a validated group, and a rejected issue of the same file
\* and canonical type as the group that lies just outside the tolerance of
\* every issue of another agent.
C22_Witness ==
    /\ pc = "found" /\ min_agents = 2
    /\ Len(consensus_issues) = 1
    /\ \E j \in 1..Len(all_issues) :
          /\ ~\E k \in 1..Len(all_issues) : Corroborates(k, j)
          /\ InList(rejected_issues, j)
          /\ \E k \in GroupOf(1) :
                /\ all_issues[k].agent # all_issues[j].agent
                /\ all_issues[k].file_path = all_issues[j].file_path
                /\ NormalizedType[all_issues[k].issue_type]
                       = NormalizedType[all_issues[j].issue_type]
                /\ all_issues[j].line_number - all_issues[k].line_number = line_tolerance + 1

\* critical > important > minor
Rank(severity) ==
    CASE severity = "critical" -> 3
      [] severity = "important" -> 2
      [] severity = "minor" -> 1

\* C25: the severity of every ConsensusIssue is the severity of one of its
\* source issues, no source issue has a higher one under critical >
\* important > minor, and create_consensus_issue gives the same severity
\* for every order of the same source issues.
C25_HighestSeverity ==
    pc = "found" =>
        \A g \in 1..Len(consensus_issues) :
            LET c == consensus_issues[g]
                src == c.source_issues
            IN /\ \E m \in 1..Len(src) : all_issues[src[m]].severity = c.severity
               /\ \A m \in 1..Len(src) : Rank(all_issues[src[m]].severity) <= Rank(c.severity)
               /\ \A perm \in Permutations(1..Len(src)) :
                     create_consensus_issue([m \in 1..Len(src) |-> all_issues[src[perm[m]]]],
                                            [m \in 1..Len(src) |-> src[perm[m]]]).severity
                         = c.severity

\* Witness of C25: a group of three issues of severities minor, critical
\* and important, in that order.
C25_Witness ==
    /\ pc = "found"
    /\ \E g \in 1..Len(consensus_issues) :
          LET src == consensus_issues[g].source_issues
          IN /\ Len(src) = 3
             /\ all_issues[src[1]].severity = "minor"
             /\ all_issues[src[2]].severity = "critical"
             /\ all_issues[src[3]].severity = "important"
             /\ consensus_issues[g].severity = "critical"

\* C27: with min_agents = 2, no two rejected issues corroborate each other
\* (different agents, same file, same canonical type, lines within the
\* tolerance).
C27_NoCorroborablePairRejected ==
    (pc = "found" /\ min_agents = 2) =>
        \A m, n \in 1..Len(rejected_issues) :
            ~Corroborates(rejected_issues[m], rejected_issues[n])

\* Witness of C27: two rejected issues of different agents on the same file
\* and of the same canonical type, one line further apart than the
\* tolerance, and a third rejected issue of the agent of one of them that
\* matches it.
C27_Witness ==
    /\ pc = "found" /\ min_agents = 2
    /\ \E m, n, p \in 1..Len(rejected_issues) :
          LET a == all_issues[rejected_issues[m]]
              b == all_issues[rejected_issues[n]]
              c == all_issues[rejected_issues[p]]
          IN /\ a.agent # b.agent
             /\ a.file_path = b.file_path
             /\ NormalizedType[a.issue_type] = NormalizedType[b.issue_type]
             /\ a.line_number - b.line_number = line_tolerance + 1
             /\ p # m /\ c.agent = a.agent
             /\ issues_match(a, c, line_tolerance)

\* C28: the first source issue of a ConsensusIssue is its seed (the group
\* has the seed's file_path, line_number and canonical type), and every
\* source issue has that file_path, that canonical type and a line at most
\* line_tolerance away from the group's line_number; so any two source
\* issues are at most 2 * line_tolerance lines apart.
C28_MembersMatchSeed ==
    pc = "found" =>
        \A g \in 1..Len(consensus_issues) :
            LET c == consensus_issues[g]
                seed == all_issues[c.source_issues[1]]
            IN /\ c.file_path = seed.file_path
               /\ c.line_number = seed.line_number
               /\ c.issue_type = NormalizedType[seed.issue_type]
               /\ \A m \in GroupOf(g) :
                     /\ all_issues[m].file_path = c.file_path
                     /\ NormalizedType[all_issues[m].issue_type] = c.issue_type
                     /\ all_issues[m].line_number - c.line_number
                            \in (-line_tolerance)..line_tolerance
               /\ \A m, n \in GroupOf(g) :
                     all_issues[m].line_number - all_issues[n].line_number
                         <= 2 * line_tolerance

\* Witness of C28: a group whose two non-seed members are exactly
\* 2 * line_tolerance lines apart and do not match each other.
C28_Witness ==
    /\ pc = "found"
    /\ \E g \in 1..Len(consensus_issues) :
          LET src == consensus_issues[g].source_issues
          IN /\ Len(src) = 3
             /\ all_issues[src[2]].line_number - all_issues[src[3]].line_number
                    = 2 * line_tolerance
             /\ ~issues_match(all_issues[src[2]], all_issues[src[3]], line_tolerance)


(***************************************************************************)
(* Properties of the coordinator workflow (checked under SpecCoord)        *)
(***************************************************************************)

\* The Fix was made of this reported issue.
MadeFrom(fix, issue) ==
    /\ fix.agent = issue.agent
    /\ fix.file_path = issue.file_path
    /\ fix.line_number = issue.line_number
    /\ fix.fix_type = issue.issue_type
    /\ fix.description = issue.description

\* The Fix was made of this entry of consensus-issues.json.
MadeFromConsensus(fix, c) ==
    /\ fix.agent = "unknown"
    /\ fix.file_path = c.file_path
    /\ fix.line_number = c.line_number
    /\ fix.fix_type = c.issue_type
    /\ fix.description = c.description

\* The Fix stands for an issue a ConsensusIssue validated.
Validated(fix) ==
    \E k \in 1..Len(consensus_issues) :
        \/ MadeFromConsensus(fix, consensus_issues[k])
        \/ \E m \in 1..Len(consensus_issues[k].source_issues) :
              MadeFrom(fix, all_issues[consensus_issues[k].source_issues[m]])

\* C1: in a coordinator run with consensus enabled, every Fix the fixer has
\* loaded stands for an issue validated by consensus, and no issue that
\* find_consensus put in rejected has become a Fix.
C1_OnlyConsensusFixes ==
    (pc \in {"apply", "end"} /\ summary.consensus_enabled) =>
        \A i \in 1..Len(fixes) :
            /\ Validated(fixes[i])
            /\ \A r \in 1..Len(rejected_issues) :
                  ~MadeFrom(fixes[i], all_issues[rejected_issues[r]])
\* The k-th issue of report f may become a Fix: auto_fixable and a
\* confidence of 90 or more.
Qualifies(f, k) ==
    /\ analysis_dir[f].issues[k].auto_fixable
    /\ analysis_dir[f].issues[k].confidence.num >= 90 * analysis_dir[f].issues[k].confidence.den

\* C17: a Fix is created from a reported issue only if the issue has
\* auto_fixable = true and confidence >= 90: every loaded Fix comes from
\* such an issue, and there are as many fixes as such issues, so an issue
\* that is not auto-fixable or has a confidence below 90 yields no Fix.
C17_Threshold ==
    /\ \A i \in 1..Len(fixes) :
          \E f \in DOMAIN analysis_dir : \E k \in 1..Len(analysis_dir[f].issues) :
              /\ Qualifies(f, k)
              /\ fixes[i].file_path = analysis_dir[f].issues[k].file
              /\ fixes[i].line_number = analysis_dir[f].issues[k].line
              /\ fixes[i].fix_type = analysis_dir[f].issues[k].type
              /\ fixes[i].description = analysis_dir[f].issues[k].description
              /\ fixes[i].confidence = analysis_dir[f].issues[k].confidence
    /\ pc = "apply" =>
          Len(fixes) = Cardinality(UNION {
              {<<f, k>> : k \in {n \in 1..Len(analysis_dir[f].issues) : Qualifies(f, n)}} :
                  f \in DOMAIN analysis_dir})

\* Witness of C17: the fixer has loaded a Fix of confidence exactly 90 while
\* the reports also hold an auto-fixable issue below 90 and an issue that is
\* not auto-fixable.
C17_Witness ==
    /\ pc = "apply"
    /\ \E i \in 1..Len(fixes) : fixes[i].confidence = Float(90)
    /\ \E f \in DOMAIN analysis_dir : \E k \in 1..Len(analysis_dir[f].issues) :
          /\ analysis_dir[f].issues[k].auto_fixable
          /\ ~Qualifies(f, k)
    /\ \E f \in DOMAIN analysis_dir : \E k \in 1..Len(analysis_dir[f].issues) :
          ~analysis_dir[f].issues[k].auto_fixable

\* C23: once the workflow is past the analysis phase (results compiled,
\* consensus analysis, Code Fixer), and whenever the pooled issue list, the
\* consensus list or the fixer's list holds anything, every launched agent
\* has a terminal status: success, error, timeout or unavailable.
C23_ConsensusAfterAllAgents ==
    (\/ pc # "analysis"
     \/ all_issues # <<>>
     \/ consensus_issues # <<>>
     \/ ConsensusFile \in DOMAIN analysis_dir
     \/ fixes # <<>>) =>
        \A a \in AgentNames :
            agent_results[a].status \in {"success", "error", "timeout", "unavailable"}

\* Witness of C23: consensus analysis has validated an issue of two agents
\* in a run where a third agent timed out and a fourth ended in error.
C23_Witness ==
    /\ pc = "choice"
    /\ consensus_issues # <<>>
    /\ ConsensusFile \in DOMAIN analysis_dir
    /\ \E a, b \in AgentNames :
          /\ agent_results[a].status = "timeout"
          /\ agent_results[b].status = "error"


(***************************************************************************)
(* Properties of the V2 fixer's rollback (checked under SpecRollbackV2)    *)
(***************************************************************************)

\* The entries of files_modified whose backup copy exists.
Restorable ==
    {k \in 1..Len(session.files_modified) :
        session.files_modified[k] \in DOMAIN session.backup_dir}

\* C20: after rollback_session every file of files_modified that has a
\* backup copy holds the content of that copy, also when the backup of
\* another file is missing, and the run reports the failed restorations:
\* the number of files it prints as restored is the number it restored.
C20_RollbackSession ==
    pc = "rolled_back" =>
        /\ \A k \in Restorable :
              project[session.files_modified[k]] =
                  session.backup_dir[session.files_modified[k]]
        /\ printed = Cardinality(Restorable)


(***************************************************************************)
(* Properties of the validators (checked under SpecValidation)             *)
(***************************************************************************)

\* The validations of validator n that ValidationConsensus has compared.
ValidationsOf(n) ==
    analysis_dir[IF n = 1 THEN "validator-1.json" ELSE "validator-2.json"].validations

\* Validator n holds an entry for the key <<file, line, type>> whose
\* approved flag is b.
Holds(n, key, b) ==
    \E k \in 1..Len(ValidationsOf(n)) :
        /\ <<ValidationsOf(n)[k].file_path, ValidationsOf(n)[k].line_number,
             ValidationsOf(n)[k].issue_type>> = key
        /\ ValidationsOf(n)[k].approved = b

\* The key <<file, line, type>> is in approved_corrections.
InApproved(key) ==
    \E k \in 1..Len(approved_corrections) :
        <<approved_corrections[k].file, approved_corrections[k].line,
          approved_corrections[k].type>> = key

\* C14: after compare_validations a correction key is in
\* approved_corrections if and only if validator 1 and validator 2 both hold
\* approved = true for it; a key for which either validator holds an entry
\* with approved = false, or for which validator 2 has no entry, is never in
\* approved_corrections.
C14_BothApprove ==
    pc = "compared" =>
        \A n \in {1, 2} : \A k \in 1..Len(ValidationsOf(n)) :
            LET key == <<ValidationsOf(n)[k].file_path, ValidationsOf(n)[k].line_number,
                         ValidationsOf(n)[k].issue_type>>
            IN /\ InApproved(key) => (Holds(1, key, TRUE) /\ Holds(2, key, TRUE))
               /\ (/\ Holds(1, key, TRUE) /\ ~Holds(1, key, FALSE)
                   /\ Holds(2, key, TRUE) /\ ~Holds(2, key, FALSE)) => InApproved(key)
               /\ (Holds(1, key, FALSE) \/ Holds(2, key, FALSE)) => ~InApproved(key)
               /\ ~(Holds(2, key, TRUE) \/ Holds(2, key, FALSE)) => ~InApproved(key)

\* The types that hold one of the keywords validate_correction recognizes.
RecognizedTypes ==
    {type \in TypeStrings :
        \/ Contains(Lower(Spelling(type)), <<"e", "m", "o", "j", "i">>)
        \/ Contains(Lower(Spelling(type)), <<"c", "o", "n", "s", "o", "l", "e">>)
        \/ Contains(Lower(Spelling(type)), <<"i", "m", "p", "o", "r", "t">>)}

Recognized(type) == type \in RecognizedTypes

\* C15: validate_correction returns approved = false for every issue whose
\* type holds none of the recognized keywords, and no correction of such a
\* type is in approved_corrections.
C15_UnknownTypeRejected ==
    /\ \A f \in DOMAIN analysis_dir \cap {"validator-1.json", "validator-2.json"} :
          \A k \in 1..Len(analysis_dir[f].validations) :
              ~Recognized(analysis_dir[f].validations[k].issue_type)
                  => ~analysis_dir[f].validations[k].approved
    /\ \A k \in 1..Len(approved_corrections) : Recognized(approved_corrections[k].type)

\* Witness of C15: both validators have judged an issue of a type that is
\* not recognized, and the comparison has approved another correction.
C15_Witness ==
    /\ pc = "compared"
    /\ approved_corrections # <<>>
    /\ \E k1 \in 1..Len(ValidationsOf(1)), k2 \in 1..Len(ValidationsOf(2)) :
          /\ ~Recognized(ValidationsOf(1)[k1].issue_type)
          /\ ValidationsOf(1)[k1].issue_type = ValidationsOf(2)[k2].issue_type
          /\ ValidationsOf(1)[k1].file_path = ValidationsOf(2)[k2].file_path
          /\ ValidationsOf(1)[k1].line_number = ValidationsOf(2)[k2].line_number

\* The validator reports that have been written.
WrittenReports == {f \in {"validator-1.json", "validator-2.json"} : f \in DOMAIN analysis_dir}

\* The <<file, line, type>> keys of validator n's list are pairwise distinct.
DistinctKeys(n) ==
    \A k1, k2 \in 1..Len(ValidationsOf(n)) :
        (/\ ValidationsOf(n)[k1].file_path = ValidationsOf(n)[k2].file_path
         /\ ValidationsOf(n)[k1].line_number = ValidationsOf(n)[k2].line_number
         /\ ValidationsOf(n)[k1].issue_type = ValidationsOf(n)[k2].issue_type) => k1 = k2

\* C29: any two validations, of the same validator or of the two, for
\* issues of the same type, file path and description carry the same
\* approved decision; and when the two validators went over the same issues
\* and the keys of the list are pairwise distinct, compare_validations
\* counts no disagreement.
C29_ValidatorsAgree ==
    /\ \A f1, f2 \in WrittenReports :
          \A k1 \in 1..Len(analysis_dir[f1].validations) :
             \A k2 \in 1..Len(analysis_dir[f2].validations) :
                LET v == analysis_dir[f1].validations[k1]
                    w == analysis_dir[f2].validations[k2]
                IN (/\ v.issue_type = w.issue_type
                    /\ v.file_path = w.file_path
                    /\ v.original_description = w.original_description) =>
                       v.approved = w.approved
    /\ (/\ pc = "compared"
        /\ DistinctKeys(1)
        /\ {ValidationsOf(1)[k] : k \in 1..Len(ValidationsOf(1))}
               = {ValidationsOf(2)[k] : k \in 1..Len(ValidationsOf(2))}) =>
           /\ tally.disagreement = 0
           /\ rejected_corrections = <<>>
           /\ tally.both_approved + tally.both_rejected = Len(ValidationsOf(1))

\* Witness of C29: the two validators went over the same three issues with
\* distinct keys, in different orders; some they both approve, some they
\* both reject.
C29_Witness ==
    /\ pc = "compared"
    /\ DistinctKeys(1)
    /\ Len(ValidationsOf(1)) = 3
    /\ ValidationsOf(1) # ValidationsOf(2)
    /\ {ValidationsOf(1)[k] : k \in 1..Len(ValidationsOf(1))}
           = {ValidationsOf(2)[k] : k \in 1..Len(ValidationsOf(2))}
    /\ tally.both_approved >= 1
    /\ tally.both_rejected >= 1

\* C30: every correction of consensus-validated-corrections.json (the
\* corrections both validators approved) has a confidence of at least 90
\* and is made a Fix by the fixer's load_json_reports.
C30_ApprovedAreLoaded ==
    (pc = "compared" /\ "consensus-validated-corrections.json" \in DOMAIN analysis_dir) =>
        LET data == analysis_dir["consensus-validated-corrections.json"]
        IN /\ data.issues = approved_corrections
           /\ \A k \in 1..Len(data.issues) :
                 /\ AtLeast(data.issues[k].confidence, 90)
                 /\ \E i \in 1..Len(FixesOf(data)) :
                       /\ FixesOf(data)[i].file_path = data.issues[k].file
                       /\ FixesOf(data)[i].line_number = data.issues[k].line
                       /\ FixesOf(data)[i].fix_type = data.issues[k].type

(***************************************************************************)
(* Properties of ConsensusAnalyzerV2 (checked under SpecConsensusV2)       *)
(***************************************************************************)

\* The agents that have an issue in the file.
AgentsIn(file) ==
    {all_issues[i].agent : i \in {j \in 1..Len(all_issues) : all_issues[j].file_path = file}}

\* C16: in file-level mode a file is validated if and only if its issues
\* come from at least min_agents distinct agents, and validated_issues is
\* exactly the auto_fixable issues of the validated files, each once.
C16_FileLevelConsensus ==
    pc = "found_v2" =>
        /\ \A i \in 1..Len(all_issues) :
               (\E k \in 1..Len(result.validated_files) :
                    result.validated_files[k].file_path = all_issues[i].file_path)
               <=> Cardinality(AgentsIn(all_issues[i].file_path)) >= min_agents
        /\ {result.validated_issues[k] : k \in 1..Len(result.validated_issues)}
               = {i \in 1..Len(all_issues) :
                     /\ all_issues[i].auto_fixable
                     /\ Cardinality(AgentsIn(all_issues[i].file_path)) >= min_agents}
        /\ \A m, n \in 1..Len(result.validated_issues) :
               m # n => result.validated_issues[m] # result.validated_issues[n]

\* Witness of C16: a file validated by two agents one of whose issues is not
\* auto-fixable, next to a file with one agent whose auto-fixable issue is
\* rejected.
C16_Witness ==
    /\ pc = "found_v2" /\ min_agents = 2
    /\ Len(result.validated_files) = 1 /\ Len(result.rejected_files) = 1
    /\ result.validated_files[1].total_issues
           > Len(result.validated_files[1].auto_fixable_issues)
    /\ result.validated_issues # <<>>
    /\ result.rejected_issues # <<>>


====
